---- MODULE Spec2Model ----
(***************************************************************************)
(* Workspace Manager: the client-side offline-first synchronisation layer  *)
(* (SyncService, PayloadPersistenceService) and the recovery-point store   *)
(* (SessionProvider), modelled from the code in TECHNICAL_CHALLENGES.md    *)
(* and PROJECT_SPECIFICATION.md.                                           *)
(*                                                                         *)
(* JavaScript runs every event handler to completion or to its next await, *)
(* so one action is one handler run up to the await it suspends at, and a  *)
(* second action is the continuation after the awaited promise settles.    *)
(***************************************************************************)
EXTENDS Integers, Sequences, FiniteSets, TLC

\* ------------------------------------------------------------------ bounds

\* Number of addToQueue calls explored (operation ids are 1..MaxOps).
MaxOps == 3
\* The wall clock (Date.now(), new Date()) runs over 0..MaxTime.
MaxTime == 1
\* Number of createRecoveryPoint calls explored.
MaxPoints == 2

\* ------------------------------------------------------------------ inputs

\* What callers pass to addToQueue: { type, data }.  Three operations on
\* task A and one on task B.
Operations == {[type |-> "create", data |-> "A"],
               [type |-> "update", data |-> "A"],
               [type |-> "delete", data |-> "A"],
               [type |-> "update", data |-> "B"]}

VARIABLES
    \* SyncService fields
    queue,            \* this.queue
    isSyncing,        \* this.isSyncing
    isOnline,         \* this.isOnline
    \* browser environment
    navigatorOnLine,  \* navigator.onLine
    savedQueue,       \* localStorage['sync-queue'], or NoItem
    now,              \* the wall clock
    nextId,           \* source of fresh crypto.randomUUID() values
    \* outstanding executeOperation calls, each holding the operation it
    \* was started with (processQueue suspended at its await)
    calls,
    \* observation of the run
    delivered,        \* ids of the operations whose executeOperation resolved, in order
    enqueued,         \* operation ids in the order addToQueue took them
    owed,             \* operations enqueued and not yet acknowledged
    failedHead,       \* id whose last attempt failed with none started since
    everFailed,       \* some executeOperation call has rejected
    lastEvent,        \* the handler that ran last and what its drain did
    \* PayloadPersistenceService
    localStore,       \* this.localStore: workspace id -> local copy, or null
    backend,          \* the workspaces the Payload backend holds
    getCall,          \* the getWorkspace call in progress or last returned
    \* SessionProvider
    appState,         \* the application state collectAppState() reads
    storage,          \* storage.current: key -> stored value
    recoveryPoints,   \* the recoveryPoints list
    nextPointId,      \* source of fresh recovery point ids
    captured,         \* the application state at each createRecoveryPoint
    lastRestore,      \* the last restoreFromRecoveryPoint and its outcome
    \* ErrorBoundary and SafeSessionManager
    manager,          \* safeSessionManager.manager: "null" until initialize()
    boundary,         \* ErrorBoundary's this.state
    promises,         \* createRecoveryPoint promises still pending
    unhandled,        \* errors that reached the global handlers uncaught
    thrown,           \* the error the boundary was handed
    \* usePersistentState and MockElectronStore
    hookItem,         \* the storage item under the hook's key
    hook,             \* the mounted hook: its state and initialValue
    hookWritten,      \* the value last passed to setState since mounting
    mockItem,         \* localStorage['electron-store-mock']
    mockStore,        \* the MockElectronStore instance: this.store
    mockWritten,      \* per key, the value last passed to set() by this instance
    lastCall,         \* the last read or write of the two stores
    \* the server: Payload collections and the requests in progress
    sessions,         \* the 'sessions' collection: session id -> document
    clock,            \* the server's wall clock, in milliseconds
    lastRequest,      \* the request handled last and what it did
    reqs,             \* the two requests handled concurrently, with their locals
    base,             \* the sessions collection when the two requests arrived
    replied,          \* the session record in the body of the last response
    \* the other collections, one document of each
    workspaceDoc,     \* a 'workspaces' document
    projectDoc,       \* a 'projects' document
    taskDoc,          \* a 'tasks' document
    lastAccess,       \* the last access predicate evaluated and its verdict
    \* trackActivity seen call by call
    userLastActive,   \* lastActive of each 'users' document
    lastTrack         \* the last trackActivity run: its calls and what followed

syncVars == <<queue, isSyncing, isOnline, savedQueue, nextId, calls,
              delivered, enqueued, owed, failedHead, everFailed>>

persistVars == <<localStore, backend, getCall>>

recoveryVars == <<appState, storage, recoveryPoints, nextPointId, captured,
                  lastRestore>>

boundaryVars == <<manager, boundary, promises, unhandled, thrown>>

\* The components that share no state with the sync layer.
storeVars == <<hookItem, hook, hookWritten, mockItem, mockStore, mockWritten,
               lastCall>>

sessionVars == <<sessions, clock, lastRequest, reqs, base, replied>>

contentVars == <<workspaceDoc, projectDoc, taskDoc, lastAccess>>

trackVars == <<userLastActive, lastTrack>>

restVars == <<boundaryVars, storeVars, sessionVars, contentVars, trackVars>>

vars == <<syncVars, navigatorOnLine, lastEvent, now, persistVars, recoveryVars,
          restVars>>

\* Everything but the two local stores, and everything but the server.
exceptStoreVars == <<syncVars, navigatorOnLine, lastEvent, now, persistVars,
                     recoveryVars, boundaryVars, sessionVars, contentVars, trackVars>>
exceptSessionVars == <<syncVars, navigatorOnLine, lastEvent, now, persistVars,
                       recoveryVars, boundaryVars, storeVars, contentVars, trackVars>>
\* Everything outside the server's collections and its clock.
clientVars == <<syncVars, navigatorOnLine, lastEvent, now, persistVars,
                recoveryVars, boundaryVars, storeVars>>

NoItem == <<"null">>

\* ------------------------------------------------------------------ helpers

Range(s) == {s[i] : i \in 1..Len(s)}

RemoveAt(s, i) == SubSeq(s, 1, i - 1) \o SubSeq(s, i + 1, Len(s))

Ids(s) == {s[i].id : i \in 1..Len(s)}

\* JSON.stringify of a value built of plain records and arrays.
JSONstringify(v) == <<"json", v>>

\* ------------------------------------------------------------------ SyncService

\* Array.prototype.push, as addToQueue uses it.
push_front(q, op) == <<op>> \o q
push(q, op) == Append(q, op)

\* Array.prototype.shift, as processQueue uses it (no-op on an empty array).
shift_last(q) == IF Len(q) = 0 THEN q ELSE SubSeq(q, 1, Len(q) - 1)
shift(q) == IF Len(q) = 0 THEN q ELSE Tail(q)

\* const operation = this.queue[0]
headOperation_last(q) == q[Len(q)]
headOperation(q) == q[1]

\* The guard of processQueue, in the order JavaScript evaluates it: which
\* early return is taken, or "started" when the head's execution begins.
processQueue_noSyncingCheck(online, syncing, q) ==
    IF ~online THEN "offline"
    ELSE IF Len(q) = 0 THEN "empty"
    ELSE "started"
processQueue(online, syncing, q) ==
    IF ~online THEN "offline"
    ELSE IF syncing THEN "busy"
    ELSE IF Len(q) = 0 THEN "empty"
    ELSE "started"

\* saveQueue: localStorage.setItem('sync-queue', JSON.stringify(this.queue))
saveQueue(q) == JSONstringify(q)

\* The condition under which addToQueue calls processQueue.
addToQueueTriggers_inverted(online, syncing) == ~online /\ ~syncing
addToQueueTriggers(online, syncing) == online /\ ~syncing

\* ------------------------------------------------------------------ PayloadPersistenceService

WsIds == {"w1"}
\* The content of a copy: written by this client, or by another writer.
WsNames == {"mine", "theirs"}
\* An updatedAt string: the instant it denotes, or InvalidDate for a string
\* that `new Date` cannot parse.
InvalidDate == -1
DateStrings == {InvalidDate} \cup (0..MaxTime)
Workspaces == [id : WsIds, updatedAt : DateStrings, name : WsNames]
\* What this client passes to saveWorkspace, and what other writers leave on
\* the backend.
LocalEdits == {w \in Workspaces : w.name = "mine" /\ w.updatedAt # InvalidDate}
BackendEdits == {w \in Workspaces : w.name = "theirs"}

\* No workspace: what the local store and the backend answer for an id they
\* do not hold.
null == [id |-> "null", updatedAt |-> InvalidDate, name |-> "null"]

\* new Date(text): the time value, NaN for an unparseable string.
NewDate(text) ==
    IF text = InvalidDate THEN [isNaN |-> TRUE, time |-> 0]
    ELSE [isNaN |-> FALSE, time |-> text]

\* a > b on two Dates: the time values compared as numbers, false when
\* either is NaN.
DateGreater(a, b) == ~a.isNaN /\ ~b.isNaN /\ a.time > b.time

\* new Date(backendWorkspace.updatedAt) > new Date(localWorkspace.updatedAt)
backendIsNewer_orEqual(backendWorkspace, localWorkspace) ==
    \/ DateGreater(NewDate(backendWorkspace.updatedAt), NewDate(localWorkspace.updatedAt))
    \/ backendWorkspace.updatedAt = localWorkspace.updatedAt
backendIsNewer(backendWorkspace, localWorkspace) ==
    DateGreater(NewDate(backendWorkspace.updatedAt), NewDate(localWorkspace.updatedAt))

\* LocalStorageService: the latest known copy of each workspace by id.
localStoreGet(store, id) == store[id]
localStoreSave(store, workspace) == [store EXCEPT ![workspace.id] = workspace]

idleCall == [pc |-> "idle", id |-> "null", local |-> null, fetch |-> "none",
             fetched |-> null, result |-> null]

\* ------------------------------------------------------------------ SessionProvider

sessionId == "session-1"
AppStates == {"state-a", "state-b", "state-c"}
InitialAppState == "state-a"
\* What callers pass to createRecoveryPoint: description, type and context.
PointRequests == {[description |-> "Window closing", type |-> "auto",
                   context |-> "undefined"],
                  [description |-> "Milestone", type |-> "manual",
                   context |-> "editing task A"]}

\* new Date().toISOString()
toISOString(t) == <<"iso", t>>

\* `recovery-point-${sessionId}-${timestamp}`
stateKeyOf(id, timestamp) == <<"recovery-point", id, timestamp>>

\* StorageProvider: set(key, value) and get(key, defaultValue).
emptyStorage == [k \in {} |-> "undefined"]
storageSet(store, key, value) ==
    [k \in DOMAIN store \cup {key} |-> IF k = key THEN value ELSE store[k]]
storageGet(store, key, defaultValue) ==
    IF key \in DOMAIN store THEN store[key] ELSE defaultValue

\* ------------------------------------------------------------------ server: sessions collection

\* const ACTIVITY_TIMEOUT = 15 * 60 * 1000
ACTIVITY_TIMEOUT == 15 * 60 * 1000

\* The instants at which requests arrive, in milliseconds: the start, 14
\* minutes, 15 minutes, and 15 minutes and a second later.
Instants == {0, 14 * 60 * 1000, 15 * 60 * 1000, 15 * 60 * 1000 + 1000}

Users == {"u1", "u2"}
\* The users who start sessions; the others only send requests.
Owners == {"u1"}
\* req.user of an unauthenticated request
NoUser == "anonymous"
\* The ids of the session documents, in the order they are created.
SessionIds == {1, 2}
\* The context blob save-state is called with (a new session has none).
Contexts == {"ctx-a"}

\* A date field that is null, and a field an update's data does not carry.
NoDate == -1
Absent == -2

\* No document under this id.
noSession == [user |-> "none", status |-> "none", startedAt |-> NoDate,
              lastActive |-> NoDate, completedAt |-> NoDate,
              durationMinutes |-> NoDate, context |-> "null"]

\* The data of an update that carries no field.
noData == [user |-> "absent", status |-> "absent", startedAt |-> Absent,
           lastActive |-> Absent, completedAt |-> Absent,
           durationMinutes |-> Absent, context |-> "absent"]

\* JavaScript truthiness of a date field: a Date or date string is truthy,
\* null and undefined are not.
isSet(date) == date >= 0

\* Math.round(ms / 60000): the nearest integer, halves upwards.
MathRoundMinutes(ms) == (2 * ms + 60000) \div 120000

\* Sessions.hooks.beforeChange: the data as the hook returns it.  `data` is
\* the data of the operation, not the stored document.
beforeChange_keepsStartedAt(data, operation, t, reqUser) ==
    LET created == IF operation = "create"
                   THEN [data EXCEPT !.startedAt = IF isSet(@) THEN @ ELSE t,
                                     !.user = IF reqUser # NoUser THEN reqUser ELSE @]
                   ELSE data
        touched == [created EXCEPT !.lastActive = t]
        stamped == [touched EXCEPT !.completedAt = t]
    IN  IF touched.status = "completed" /\ ~isSet(touched.completedAt)
        THEN IF isSet(stamped.startedAt)
             THEN [stamped EXCEPT !.durationMinutes = MathRoundMinutes(t - stamped.startedAt)]
             ELSE stamped
        ELSE touched
beforeChange(data, operation, t, reqUser) ==
    LET created == IF operation = "create"
                   THEN [data EXCEPT !.startedAt = t,
                                     !.user = IF reqUser # NoUser THEN reqUser ELSE @]
                   ELSE data
        touched == [created EXCEPT !.lastActive = t]
        stamped == [touched EXCEPT !.completedAt = t]
    IN  IF touched.status = "completed" /\ ~isSet(touched.completedAt)
        THEN IF isSet(stamped.startedAt)
             THEN [stamped EXCEPT !.durationMinutes = MathRoundMinutes(t - stamped.startedAt)]
             ELSE stamped
        ELSE touched

\* The stored document after an operation: the fields the data carries
\* replace the stored ones.
merge(doc, data) ==
    [user |-> IF data.user = "absent" THEN doc.user ELSE data.user,
     status |-> IF data.status = "absent" THEN doc.status ELSE data.status,
     startedAt |-> IF data.startedAt = Absent THEN doc.startedAt ELSE data.startedAt,
     lastActive |-> IF data.lastActive = Absent THEN doc.lastActive ELSE data.lastActive,
     completedAt |-> IF data.completedAt = Absent THEN doc.completedAt ELSE data.completedAt,
     durationMinutes |-> IF data.durationMinutes = Absent THEN doc.durationMinutes
                         ELSE data.durationMinutes,
     context |-> IF data.context = "absent" THEN doc.context ELSE data.context]

\* payload.update({ collection: 'sessions', id, data }) at time t
payloadUpdate(S, id, data, t) ==
    [S EXCEPT ![id] = merge(S[id], beforeChange(data, "update", t, NoUser))]

\* payload.create({ collection: 'sessions', data }) by reqUser at time t;
\* status takes its defaultValue 'active'.
payloadCreate(S, id, data, t, reqUser) ==
    [S EXCEPT ![id] = merge([noSession EXCEPT !.status = "active"],
                            beforeChange(data, "create", t, reqUser))]

\* payload.find: the sessions with user = userId and status = 'active'.
activeOf_anyStatus(S, userId) ==
    {id \in SessionIds : S[id].user = userId}
activeOf(S, userId) ==
    {id \in SessionIds : S[id].user = userId /\ S[id].status = "active"}

\* sessions.docs[0] with limit: 1 and no sort given: one of the matching
\* documents, 0 when sessions.docs is empty.
Found(S, userId) == IF activeOf(S, userId) = {} THEN {0} ELSE activeOf(S, userId)

\* timeSinceLastActive > ACTIVITY_TIMEOUT
exceedsTimeout_orEqual(timeSinceLastActive) == timeSinceLastActive >= ACTIVITY_TIMEOUT
exceedsTimeout(timeSinceLastActive) == timeSinceLastActive > ACTIVITY_TIMEOUT

\* trackActivity from `if (sessions.docs.length > 0)` on, with session the
\* document find returned: lastActive is set to now, then status to
\* 'paused' when the document as found had been inactive for too long.
trackSession(S, session, t) ==
    IF session = 0 THEN S
    ELSE LET touched == payloadUpdate(S, session, [noData EXCEPT !.lastActive = t], t)
             timeSinceLastActive == t - S[session].lastActive
         IN  IF exceedsTimeout(timeSinceLastActive)
             THEN payloadUpdate(touched, session, [noData EXCEPT !.status = "paused"], t)
             ELSE touched

\* session.user.id !== req.user.id
ownerMismatch_never(session, reqUser) == FALSE
ownerMismatch(session, reqUser) == session.user # reqUser

\* The data of the resume-session update and of the save-state update.
resumeData(t) == [noData EXCEPT !.status = "active", !.lastActive = t]
saveStateData_activating(context, t) ==
    [noData EXCEPT !.context = context, !.lastActive = t, !.status = "active"]
saveStateData(context, t) == [noData EXCEPT !.context = context, !.lastActive = t]

\* The data of an update that completes a session: the status alone (a REST
\* call), or every field of the document as the admin form submits it.
CompletionForms == {"statusOnly", "fullDocument"}
completionData(doc, form) ==
    IF form = "statusOnly" THEN [noData EXCEPT !.status = "completed"]
    ELSE [doc EXCEPT !.status = "completed"]

\* What is recorded of a request: the route, the response status, and the
\* session trackActivity's find returned (0 for none).
noRequest == [kind |-> "none", response |-> 0, found |-> 0]

\* ------------------------------------------------------------------ server: workspaces, projects, tasks

\* The user whose role is 'admin'; every other user has role 'user'.
AdminUser == "adm"
roleOf(userId) == IF userId = AdminUser THEN "admin" ELSE "user"
\* Who may send a request: a user, the admin, or nobody (no req.user).
Callers == Users \cup {AdminUser, NoUser}

\* req.user && req.user.role === 'admin'
isAdmin(reqUser) == reqUser # NoUser /\ roleOf(reqUser) = "admin"

\* A members or assignees array the data does not carry.
AbsentArray == {"absent"}

\* No document, and the data of an operation that carries none of the
\* fields below (it may carry others: name, description, ...).
noWorkspace == [owner |-> "none", members |-> {}, createdAt |-> NoDate,
                lastUpdated |-> NoDate]
noWorkspaceData == [owner |-> "absent", members |-> AbsentArray, createdAt |-> Absent,
                    lastUpdated |-> Absent]
noProject == [assignees |-> {}, createdBy |-> "none", createdAt |-> NoDate,
              lastUpdated |-> NoDate]
noProjectData == [assignees |-> AbsentArray, createdBy |-> "absent", createdAt |-> Absent,
                  lastUpdated |-> Absent]
noTask == [assignee |-> "none", status |-> "none", completedDate |-> NoDate,
           createdBy |-> "none", createdAt |-> NoDate, lastUpdated |-> NoDate]
noTaskData == [assignee |-> "absent", status |-> "absent", completedDate |-> Absent,
               createdBy |-> "absent", createdAt |-> Absent, lastUpdated |-> Absent]

\* Workspaces.hooks.beforeChange; data is the data of the operation.
workspacesBeforeChange(data, t, reqUser) ==
    LET dated == IF ~isSet(data.createdAt) THEN [data EXCEPT !.createdAt = t] ELSE data
        updated == [dated EXCEPT !.lastUpdated = t]
    IN  IF updated.owner \in {"absent", "none"} /\ reqUser # NoUser
        THEN [updated EXCEPT !.owner = reqUser]
        ELSE updated

\* Projects.hooks.beforeChange
projectsBeforeChange(data, t, reqUser) ==
    LET dated == IF ~isSet(data.createdAt)
                 THEN [data EXCEPT !.createdAt = t,
                                   !.createdBy = IF reqUser # NoUser THEN reqUser ELSE @]
                 ELSE data
    IN  [dated EXCEPT !.lastUpdated = t]

\* Tasks.hooks.beforeChange
tasksBeforeChange(data, operation, t, reqUser) ==
    LET created == IF operation = "create"
                   THEN [data EXCEPT !.createdAt = t,
                                     !.createdBy = IF reqUser # NoUser THEN reqUser ELSE @]
                   ELSE data
        updated == [created EXCEPT !.lastUpdated = t]
    IN  IF updated.status = "completed" /\ ~isSet(updated.completedDate)
        THEN [updated EXCEPT !.completedDate = t]
        ELSE IF updated.status # "completed"
        THEN [updated EXCEPT !.completedDate = NoDate]
        ELSE updated

\* The stored document after an operation: the fields the data carries
\* replace the stored ones.
mergeWorkspace(doc, data) ==
    [owner |-> IF data.owner = "absent" THEN doc.owner ELSE data.owner,
     members |-> IF data.members = AbsentArray THEN doc.members ELSE data.members,
     createdAt |-> IF data.createdAt = Absent THEN doc.createdAt ELSE data.createdAt,
     lastUpdated |-> IF data.lastUpdated = Absent THEN doc.lastUpdated ELSE data.lastUpdated]
mergeProject(doc, data) ==
    [assignees |-> IF data.assignees = AbsentArray THEN doc.assignees ELSE data.assignees,
     createdBy |-> IF data.createdBy = "absent" THEN doc.createdBy ELSE data.createdBy,
     createdAt |-> IF data.createdAt = Absent THEN doc.createdAt ELSE data.createdAt,
     lastUpdated |-> IF data.lastUpdated = Absent THEN doc.lastUpdated ELSE data.lastUpdated]
mergeTask(doc, data) ==
    [assignee |-> IF data.assignee = "absent" THEN doc.assignee ELSE data.assignee,
     status |-> IF data.status = "absent" THEN doc.status ELSE data.status,
     completedDate |-> IF data.completedDate = Absent THEN doc.completedDate
                       ELSE data.completedDate,
     createdBy |-> IF data.createdBy = "absent" THEN doc.createdBy ELSE data.createdBy,
     createdAt |-> IF data.createdAt = Absent THEN doc.createdAt ELSE data.createdAt,
     lastUpdated |-> IF data.lastUpdated = Absent THEN doc.lastUpdated ELSE data.lastUpdated]

\* { field: { equals: req.user?.id } } on a relationship field, and on the
\* user of an array's rows.  With no req.user the id is undefined, which is
\* taken to equal no stored user.
equalsUser(field, reqUser) == reqUser # NoUser /\ field = reqUser
rowsHaveUser(rows, reqUser) == reqUser # NoUser /\ reqUser \in rows

\* The declared access functions, applied to one document: whether the
\* caller is granted it.  The project belongs to the workspace, the task to
\* the project.
sessionsAccess(reqUser, session) ==
    isAdmin(reqUser) \/ equalsUser(session.user, reqUser)
workspacesRead(reqUser, ws) == TRUE
workspacesUpdate(reqUser, ws) ==
    isAdmin(reqUser) \/ rowsHaveUser(ws.members, reqUser)
workspacesDelete(reqUser, ws) ==
    isAdmin(reqUser) \/ equalsUser(ws.owner, reqUser)
projectsRead(reqUser, proj, ws) ==
    \/ isAdmin(reqUser)
    \/ rowsHaveUser(proj.assignees, reqUser)
    \/ rowsHaveUser(ws.members, reqUser)
tasksRead(reqUser, tsk, ws) ==
    \/ isAdmin(reqUser)
    \/ equalsUser(tsk.assignee, reqUser)
    \/ rowsHaveUser(ws.members, reqUser)

\* Every access function a collection declares.
DeclaredAccess == {<<"sessions", "read">>, <<"sessions", "update">>, <<"sessions", "delete">>,
                   <<"workspaces", "read">>, <<"workspaces", "update">>,
                   <<"workspaces", "delete">>,
                   <<"projects", "read">>, <<"tasks", "read">>}

noAccess == [collection |-> "none", operation |-> "none", user |-> NoUser,
             id |-> 0, granted |-> FALSE]

\* ------------------------------------------------------------------ server: trackActivity call by call

\* The awaited payload calls of trackActivity, in order, and the call that
\* throws in a run ("none" when all succeed).
TrackCalls == <<"updateUser", "find", "updateLastActive", "updatePaused">>
Failures == {"none"} \cup Range(TrackCalls)

noTrack == [user |-> NoUser, made |-> <<>>, nextCalls |-> 0, found |-> 0,
            caught |-> FALSE, raised |-> FALSE]

Init ==
    /\ queue = <<>>
    /\ isSyncing = FALSE
    /\ navigatorOnLine \in BOOLEAN
    /\ isOnline = navigatorOnLine
    /\ savedQueue = NoItem
    /\ now = 0
    /\ nextId = 1
    /\ calls = <<>>
    /\ delivered = <<>>
    /\ enqueued = <<>>
    /\ owed = <<>>
    /\ failedHead = 0
    /\ everFailed = FALSE
    /\ lastEvent = [name |-> "constructor", drain |-> "none"]
    /\ localStore = [id \in WsIds |-> null]
    /\ backend = [id \in WsIds |-> null]
    /\ getCall = idleCall
    /\ appState = InitialAppState
    /\ storage = emptyStorage
    /\ recoveryPoints = <<>>
    /\ nextPointId = 1
    /\ captured = <<>>
    /\ lastRestore = [id |-> 0, status |-> "none"]
    /\ manager = "null"
    /\ boundary = [hasError |-> FALSE, error |-> [isNull |-> TRUE, message |-> "undefined"],
                   errorInfo |-> [componentStack |-> "null"]]
    /\ promises = <<>>
    /\ unhandled = <<>>
    /\ thrown = [caught |-> FALSE, error |-> [isNull |-> TRUE, message |-> "undefined"]]
    /\ hookItem = [kind |-> "absent", value |-> "undefined"]
    /\ hook = [mounted |-> FALSE, state |-> "undefined", initialValue |-> "undefined"]
    /\ hookWritten = "undefined"
    /\ mockItem = [kind |-> "absent", value |-> [k \in {"theme", "zoom"} |-> "undefined"]]
    /\ mockStore = [constructed |-> FALSE,
                    store |-> [k \in {"theme", "zoom"} |-> "undefined"],
                    defaults |-> [k \in {"theme", "zoom"} |-> "undefined"]]
    /\ mockWritten = [k \in {"theme", "zoom"} |-> "undefined"]
    /\ lastCall = [op |-> "none", key |-> "none", stored |-> "none",
                   default |-> "undefined", value |-> "undefined",
                   returned |-> "undefined", raised |-> FALSE]
    /\ sessions = [id \in SessionIds |-> noSession]
    /\ clock = 0
    /\ lastRequest = noRequest
    /\ reqs = <<>>
    /\ base = [id \in SessionIds |-> noSession]
    /\ replied = noSession
    /\ workspaceDoc = noWorkspace
    /\ projectDoc = noProject
    /\ taskDoc = noTask
    /\ lastAccess = noAccess
    /\ userLastActive = [userId \in Users |-> NoDate]
    /\ lastTrack = noTrack

\* window 'online' event: this.isOnline = true; this.processQueue()
Online ==
    /\ ~navigatorOnLine
    /\ navigatorOnLine' = TRUE
    /\ isOnline' = TRUE
    /\ LET r == processQueue(TRUE, isSyncing, queue) IN
        /\ isSyncing' = (IF r = "started" THEN TRUE ELSE isSyncing)
        /\ calls' = (IF r = "started" THEN Append(calls, headOperation(queue)) ELSE calls)
        /\ failedHead' = (IF r = "started" THEN 0 ELSE failedHead)
        /\ lastEvent' = [name |-> "online", drain |-> r]
    /\ UNCHANGED <<queue, savedQueue, nextId, delivered, enqueued, owed, everFailed>>

\* window 'offline' event: this.isOnline = false
Offline ==
    /\ navigatorOnLine
    /\ navigatorOnLine' = FALSE
    /\ isOnline' = FALSE
    /\ lastEvent' = [name |-> "offline", drain |-> "none"]
    /\ UNCHANGED <<queue, isSyncing, savedQueue, nextId, calls, delivered,
                   enqueued, owed, failedHead, everFailed>>

\* addToQueue(operation)
AddToQueue(operation) ==
    /\ nextId <= MaxOps
    /\ LET op == [id |-> nextId, type |-> operation.type,
                  data |-> operation.data, timestamp |-> now]
           q == push(queue, op)
           r == IF addToQueueTriggers(isOnline, isSyncing)
                THEN processQueue(isOnline, isSyncing, q)
                ELSE "none"
       IN
        /\ queue' = q
        /\ savedQueue' = saveQueue(q)
        /\ isSyncing' = (IF r = "started" THEN TRUE ELSE isSyncing)
        /\ calls' = (IF r = "started" THEN Append(calls, headOperation(q)) ELSE calls)
        /\ failedHead' = (IF r = "started" THEN 0 ELSE failedHead)
        /\ lastEvent' = [name |-> "addToQueue", drain |-> r]
        /\ enqueued' = Append(enqueued, op.id)
        /\ owed' = Append(owed, op)
    /\ nextId' = nextId + 1
    /\ UNCHANGED <<isOnline, navigatorOnLine, delivered, everFailed>>

\* processQueue after `await this.executeOperation(operation)` resolved:
\* queue.shift(); saveQueue(); if (queue.length > 0) processQueue();
\* finally isSyncing = false.  The nested processQueue runs while isSyncing
\* still has the value the try block left it with.
ExecuteSucceeds(i) ==
    /\ i \in 1..Len(calls)
    /\ LET op == calls[i]
           q == shift(queue)
           r == IF Len(q) > 0 THEN processQueue(isOnline, isSyncing, q) ELSE "none"
           rest == RemoveAt(calls, i)
       IN
        /\ queue' = q
        /\ savedQueue' = saveQueue(q)
        /\ calls' = (IF r = "started" THEN Append(rest, headOperation(q)) ELSE rest)
        /\ failedHead' = (IF r = "started" THEN 0 ELSE failedHead)
        /\ lastEvent' = [name |-> "executeSucceeded", drain |-> r]
        /\ delivered' = Append(delivered, op.id)
        /\ owed' = SelectSeq(owed, LAMBDA o : o.id # op.id)
    /\ isSyncing' = FALSE
    /\ UNCHANGED <<isOnline, navigatorOnLine, nextId, enqueued, everFailed>>

\* processQueue after `await this.executeOperation(operation)` rejected:
\* catch logs, finally isSyncing = false.
ExecuteFails(i) ==
    /\ i \in 1..Len(calls)
    /\ calls' = RemoveAt(calls, i)
    /\ isSyncing' = FALSE
    /\ failedHead' = calls[i].id
    /\ everFailed' = TRUE
    /\ lastEvent' = [name |-> "executeFailed", drain |-> "none"]
    /\ UNCHANGED <<queue, isOnline, navigatorOnLine, savedQueue, nextId,
                   delivered, enqueued, owed>>

\* Time passes.
Tick ==
    /\ now < MaxTime
    /\ now' = now + 1
    /\ lastEvent' = [name |-> "tick", drain |-> "none"]

\* saveWorkspace(workspace): the local copy is written first, then the
\* operation is queued for the backend.  The local write is a synchronous
\* store behind an await, so no event handler runs between the two.
SaveWorkspace(workspace) ==
    /\ localStore' = localStoreSave(localStore, workspace)
    /\ AddToQueue([type |-> "saveWorkspace", data |-> workspace])
    /\ UNCHANGED <<backend, getCall>>

\* getWorkspace(id) up to `await payloadAPI.getWorkspace(id)`: the local copy
\* is read; offline, it is returned at once.
GetWorkspaceBegins(id) ==
    /\ getCall.pc \in {"idle", "returned"}
    /\ LET localWorkspace == localStoreGet(localStore, id) IN
        getCall' = IF navigatorOnLine
                   THEN [pc |-> "fetching", id |-> id, local |-> localWorkspace,
                         fetch |-> "none", fetched |-> null, result |-> null]
                   ELSE [pc |-> "returned", id |-> id, local |-> localWorkspace,
                         fetch |-> "offline", fetched |-> null,
                         result |-> localWorkspace]
    /\ UNCHANGED <<localStore, backend>>

\* getWorkspace(id) after the fetch settled: with "ok" the backend answered
\* with its copy (null when it holds none), with "error" the fetch threw.
GetWorkspaceSettles(outcome) ==
    /\ getCall.pc = "fetching"
    /\ LET localWorkspace == getCall.local
           backendWorkspace == IF outcome = "ok" THEN backend[getCall.id] ELSE null
           take == /\ outcome = "ok"
                   /\ backendWorkspace # null
                   /\ \/ localWorkspace = null
                      \/ backendIsNewer(backendWorkspace, localWorkspace)
       IN
        /\ localStore' = IF take THEN localStoreSave(localStore, backendWorkspace)
                         ELSE localStore
        /\ getCall' = [pc |-> "returned", id |-> getCall.id, local |-> localWorkspace,
                       fetch |-> outcome, fetched |-> backendWorkspace,
                       result |-> IF take THEN backendWorkspace ELSE localWorkspace]
    /\ UNCHANGED backend

\* Another writer (another client, or a delivered operation) changes the
\* backend's copy.
BackendWrite(workspace) ==
    /\ backend' = [backend EXCEPT ![workspace.id] = workspace]
    /\ UNCHANGED <<localStore, getCall>>

\* createRecoveryPoint(description, type): the current state is stored under
\* the state key and a recovery point referring to it is appended.
CreateRecoveryPoint(request) ==
    /\ nextPointId <= MaxPoints
    /\ LET timestamp == toISOString(now)
           stateKey == stateKeyOf(sessionId, timestamp)
           currentState == appState
           recoveryPoint == [id |-> nextPointId,
                             timestamp |-> timestamp,
                             description |-> request.description,
                             stateKey |-> stateKey,
                             snapshotType |-> request.type,
                             operationContext |-> request.context]
       IN
        /\ storage' = storageSet(storage, stateKey, currentState)
        /\ recoveryPoints' = Append(recoveryPoints, recoveryPoint)
        /\ captured' = Append(captured, currentState)
    /\ nextPointId' = nextPointId + 1
    /\ UNCHANGED <<appState, lastRestore>>

\* restoreFromRecoveryPoint(id): the snapshot the recovery point refers to
\* replaces the application state; NotFound when the id or the snapshot is
\* missing.
RestoreFromRecoveryPoint(id) ==
    /\ LET found == {i \in 1..Len(recoveryPoints) : recoveryPoints[i].id = id}
           stateKey == recoveryPoints[CHOOSE i \in found : TRUE].stateKey
           snapshot == storageGet(storage, stateKey, "undefined")
       IN
        IF found = {} \/ snapshot = "undefined"
        THEN /\ lastRestore' = [id |-> id, status |-> "NotFound"]
             /\ UNCHANGED appState
        ELSE /\ lastRestore' = [id |-> id, status |-> "restored"]
             /\ appState' = snapshot
    /\ UNCHANGED <<storage, recoveryPoints, nextPointId, captured>>

\* The user works: the application state changes.
ChangeAppState(state) ==
    /\ state # appState
    /\ appState' = state
    /\ lastRestore' = [id |-> 0, status |-> "none"]
    /\ UNCHANGED <<storage, recoveryPoints, nextPointId, captured>>

Next ==
    \/ Online /\ UNCHANGED <<now, persistVars, recoveryVars, restVars>>
    \/ Offline /\ UNCHANGED <<now, persistVars, recoveryVars, restVars>>
    \/ \E operation \in Operations :
          AddToQueue(operation) /\ UNCHANGED <<now, persistVars, recoveryVars, restVars>>
    \/ \E i \in 1..Len(calls) :
          ExecuteSucceeds(i) /\ UNCHANGED <<now, persistVars, recoveryVars, restVars>>
    \/ \E i \in 1..Len(calls) :
          ExecuteFails(i) /\ UNCHANGED <<now, persistVars, recoveryVars, restVars>>
    \/ Tick /\ UNCHANGED <<syncVars, navigatorOnLine, persistVars, recoveryVars, restVars>>

\* A page reload: the SyncService constructor runs again.  It sets
\* this.queue = [], this.isSyncing = false, this.isOnline = navigator.onLine
\* and reads nothing from localStorage; the suspended processQueue of the old
\* page is gone with the page.
Reload ==
    /\ queue' = <<>>
    /\ isSyncing' = FALSE
    /\ isOnline' = navigatorOnLine
    /\ calls' = <<>>
    /\ failedHead' = 0
    /\ lastEvent' = [name |-> "constructor", drain |-> "none"]
    /\ UNCHANGED <<navigatorOnLine, savedQueue, nextId, delivered, enqueued,
                   owed, everFailed>>

NextReload ==
    \/ Next
    \/ Reload /\ UNCHANGED <<now, persistVars, recoveryVars, restVars>>

PersistNext ==
    \/ Online /\ UNCHANGED <<now, persistVars, recoveryVars, restVars>>
    \/ Offline /\ UNCHANGED <<now, persistVars, recoveryVars, restVars>>
    \/ \E i \in 1..Len(calls) :
          ExecuteSucceeds(i) /\ UNCHANGED <<now, persistVars, recoveryVars, restVars>>
    \/ \E i \in 1..Len(calls) :
          ExecuteFails(i) /\ UNCHANGED <<now, persistVars, recoveryVars, restVars>>
    \/ \E workspace \in LocalEdits :
          SaveWorkspace(workspace) /\ UNCHANGED <<now, recoveryVars, restVars>>
    \/ \E id \in WsIds :
          /\ GetWorkspaceBegins(id)
          /\ UNCHANGED <<syncVars, navigatorOnLine, lastEvent, now, recoveryVars,
                         restVars>>
    \/ \E outcome \in {"ok", "error"} :
          /\ GetWorkspaceSettles(outcome)
          /\ UNCHANGED <<syncVars, navigatorOnLine, lastEvent, now, recoveryVars,
                         restVars>>
    \/ \E workspace \in BackendEdits :
          /\ BackendWrite(workspace)
          /\ UNCHANGED <<syncVars, navigatorOnLine, lastEvent, now, recoveryVars,
                         restVars>>

RecoveryNext ==
    \/ \E request \in PointRequests :
          /\ CreateRecoveryPoint(request)
          /\ UNCHANGED <<syncVars, navigatorOnLine, lastEvent, now, persistVars,
                         restVars>>
    \/ \E id \in 1..MaxPoints :
          /\ RestoreFromRecoveryPoint(id)
          /\ UNCHANGED <<syncVars, navigatorOnLine, lastEvent, now, persistVars,
                         restVars>>
    \/ \E state \in AppStates :
          /\ ChangeAppState(state)
          /\ UNCHANGED <<syncVars, navigatorOnLine, lastEvent, now, persistVars,
                         restVars>>
    \/ Tick /\ UNCHANGED <<syncVars, navigatorOnLine, persistVars, recoveryVars, restVars>>

\* One SyncService lifetime.
Spec == Init /\ [][Next]_vars

\* An outstanding executeOperation call settles (the request returns or
\* times out); nothing else is scheduled by the code.
ExecuteSettles ==
    /\ \E i \in 1..Len(calls) : ExecuteSucceeds(i) \/ ExecuteFails(i)
    /\ UNCHANGED <<now, persistVars, recoveryVars, restVars>>
FairSpec == Init /\ [][Next]_vars /\ WF_vars(ExecuteSettles)

\* Lifetimes separated by page reloads.
ReloadSpec == Init /\ [][NextReload]_vars

\* PayloadPersistenceService over its SyncService, local store and backend.
PersistSpec == Init /\ [][PersistNext]_vars

\* SessionProvider's recovery points.
RecoverySpec == Init /\ [][RecoveryNext]_vars

\* ------------------------------------------------------------------ ErrorBoundary

\* What a render can throw: an Error object, or null (`throw null`).
nullError == [isNull |-> TRUE, message |-> "undefined"]
Errors == {[isNull |-> FALSE, message |-> "render failed"], nullError}
ErrorInfo == [componentStack |-> "in TaskList"]

\* What WorkSessionManager.createRecoveryPoint does when it is called: it
\* throws before returning, or returns a promise that rejects, or one that
\* resolves with the new recovery point's id.
Behaviours == {"throws", "rejects", "resolves"}

\* The description, type and context componentDidCatch passes on.
errorPointRequest(error, errorInfo) ==
    [description |-> "Error recovery point", type |-> "auto",
     context |-> [error |-> error.message,
                  componentStack |-> errorInfo.componentStack]]

\* SafeSessionManager.createRecoveryPoint: the promise it returns.
\*   return this.manager?.createRecoveryPoint(...) || Promise.resolve(null)
\* inside try, with catch returning Promise.resolve(null).  A promise object
\* is truthy, so the manager's promise is returned as it is.
safeCreateRecoveryPoint(mgr, behaviour) ==
    IF mgr = "null" THEN [settles |-> "resolved", from |-> "fallback"]
    ELSE IF behaviour = "throws" THEN [settles |-> "resolved", from |-> "catch"]
    ELSE IF behaviour = "rejects" THEN [settles |-> "rejects", from |-> "manager"]
    ELSE [settles |-> "resolved", from |-> "manager"]

\* The rejection handlers componentDidCatch attaches to the promise it is
\* handed: the call's value is dropped, with no await and no .catch().
rejectionHandlers == 0

\* initialize(manager)
Initialize ==
    /\ manager = "null"
    /\ manager' = "set"
    /\ UNCHANGED <<boundary, promises, unhandled, thrown>>

\* A render throws `error`: getDerivedStateFromError, then componentDidCatch.
\* Reading error.message of null throws a TypeError inside the try block,
\* before safeSessionManager is called; the catch logs it.
CatchError(error, behaviour) ==
    /\ ~boundary.hasError
    /\ thrown' = [caught |-> TRUE, error |-> error]
    /\ boundary' = [hasError |-> TRUE, error |-> error, errorInfo |-> ErrorInfo]
    /\ UNCHANGED <<manager, unhandled>>
    /\ IF error.isNull
       THEN UNCHANGED <<promises, recoveryVars>>
       ELSE LET promise == safeCreateRecoveryPoint(manager, behaviour) IN
             /\ promises' = IF promise.settles = "rejects"
                            THEN Append(promises, [handlers |-> rejectionHandlers])
                            ELSE promises
             /\ IF promise.from = "manager" /\ promise.settles = "resolved"
                THEN CreateRecoveryPoint(errorPointRequest(error, ErrorInfo))
                ELSE UNCHANGED recoveryVars

\* A pending createRecoveryPoint promise rejects (storage.current.set
\* failed).  With no rejection handler attached the rejection is reported to
\* the global 'unhandledrejection' handler.
PromiseRejects ==
    /\ promises # <<>>
    /\ promises' = Tail(promises)
    /\ unhandled' = IF Head(promises).handlers = 0
                    THEN Append(unhandled, "unhandledrejection")
                    ELSE unhandled
    /\ UNCHANGED <<manager, boundary, thrown>>

BoundaryNext ==
    \/ RecoveryNext
    \/ /\ Initialize
       /\ UNCHANGED <<syncVars, navigatorOnLine, lastEvent, now, persistVars,
                      recoveryVars, storeVars, sessionVars,
                      contentVars, trackVars>>
    \/ \E error \in Errors, behaviour \in Behaviours :
          /\ CatchError(error, behaviour)
          /\ UNCHANGED <<syncVars, navigatorOnLine, lastEvent, now, persistVars,
                         storeVars, sessionVars,
                      contentVars, trackVars>>
    \/ /\ PromiseRejects
       /\ UNCHANGED <<syncVars, navigatorOnLine, lastEvent, now, persistVars,
                      recoveryVars, storeVars, sessionVars,
                      contentVars, trackVars>>

\* The error boundary over SafeSessionManager and the recovery points.
BoundarySpec == Init /\ [][BoundaryNext]_vars

\* ------------------------------------------------------------------ usePersistentState, MockElectronStore

\* The values the application keeps, and `undefined`.
Values == {"light", "dark"}
undefined == "undefined"
StoreKeys == {"theme", "zoom"}
noEntries == [k \in StoreKeys |-> undefined]

\* What a storage item can hold when a process starts: nothing (getItem
\* returns null), the empty string, text that is not JSON, or the JSON text
\* of a value.
HookItems == {[kind |-> "absent", value |-> undefined],
              [kind |-> "empty", value |-> undefined],
              [kind |-> "garbage", value |-> undefined]}
             \cup {[kind |-> "json", value |-> v] : v \in Values}
MockItems == {[kind |-> "absent", value |-> noEntries],
              [kind |-> "garbage", value |-> noEntries],
              [kind |-> "json", value |-> [noEntries EXCEPT !["theme"] = "dark"]]}

\* options.defaults of the MockElectronStore constructor.
MockDefaults == {noEntries, [noEntries EXCEPT !["theme"] = "light"]}

\* A storage call either returns or throws (quota exceeded, access denied).
Outcomes == {"ok", "throws"}

\* serialize = JSON.stringify: the text of a value.
serialize(v) == [kind |-> "json", value |-> v]

\* deserialize = JSON.parse: the value of a JSON text; it throws on any
\* other text.
deserialize(item) ==
    IF item.kind = "json" THEN [threw |-> FALSE, value |-> item.value]
    ELSE [threw |-> TRUE, value |-> undefined]

\* A string as a condition: null and "" are falsy.
truthy(item) == item.kind \notin {"absent", "empty"}

\* The initializer of useState in usePersistentState:
\*   try { const storedValue = storage.getItem(key);
\*         return storedValue ? deserialize(storedValue) : initialValue }
\*   catch (error) { console.error(...); return initialValue }
initialState_noCatch(getItem, item, initialValue) ==
    IF getItem = "throws" THEN [raised |-> TRUE, value |-> undefined]
    ELSE IF ~truthy(item) THEN [raised |-> FALSE, value |-> initialValue]
    ELSE [raised |-> deserialize(item).threw, value |-> deserialize(item).value]
initialState(getItem, item, initialValue) ==
    IF getItem = "throws" THEN [raised |-> FALSE, value |-> initialValue]
    ELSE IF ~truthy(item) THEN [raised |-> FALSE, value |-> initialValue]
    ELSE IF deserialize(item).threw THEN [raised |-> FALSE, value |-> initialValue]
    ELSE [raised |-> FALSE, value |-> deserialize(item).value]

\* try { storage.setItem(key, text) } catch (error) { console.error(...) }:
\* the item afterwards.
setItemCaught(item, text, setItem) == IF setItem = "ok" THEN text ELSE item

\* MockElectronStore.get(key, defaultValue)
mockGet(store, key, defaultValue) ==
    IF store[key] # undefined THEN store[key] ELSE defaultValue

\* MockElectronStore.set(key, value): this.store[key] = value
mockSet(store, key, value, setItem) == [store EXCEPT ![key] = value]

\* loadFromLocalStorage: this.store = { ...this.store, ...JSON.parse(stored) }
\* when the item is truthy; a throw leaves this.store as it was.
loadFromLocalStorage(store, getItem, item) ==
    IF getItem = "throws" \/ ~truthy(item) \/ deserialize(item).threw THEN store
    ELSE [k \in StoreKeys |-> IF deserialize(item).value[k] # undefined
                              THEN deserialize(item).value[k] ELSE store[k]]

\* A step that is no read and no write of a store.
noCall(op) == [op |-> op, key |-> "none", stored |-> "none", default |-> undefined,
               value |-> undefined, returned |-> undefined, raised |-> FALSE]

\* Another run of the application, or anything else with access to the
\* storage, leaves an item behind before the hook is mounted.
HookItemLeft(item) ==
    /\ ~hook.mounted
    /\ hookItem' = item
    /\ lastCall' = noCall("left")
    /\ UNCHANGED <<hook, hookWritten, mockItem, mockStore, mockWritten>>

\* The component mounts: the initializer reads the item, then the effect
\* writes the state back.
Mount(initialValue, getItem, setItem) ==
    /\ ~hook.mounted
    /\ LET r == initialState(getItem, hookItem, initialValue) IN
        /\ hook' = [mounted |-> ~r.raised, state |-> r.value,
                    initialValue |-> initialValue]
        /\ hookItem' = IF r.raised THEN hookItem
                       ELSE setItemCaught(hookItem, serialize(r.value), setItem)
        /\ lastCall' = [op |-> "mount", key |-> "hook",
                        stored |-> IF getItem = "throws" THEN "unreadable"
                                   ELSE hookItem.kind,
                        default |-> initialValue, value |-> undefined,
                        returned |-> r.value, raised |-> r.raised]
    /\ hookWritten' = undefined
    /\ UNCHANGED <<mockItem, mockStore, mockWritten>>

\* setState(value), then the effect: storage.setItem(key, serialize(state)).
SetState(value, setItem) ==
    /\ hook.mounted
    /\ hook' = [hook EXCEPT !.state = value]
    /\ hookItem' = IF value = hook.state THEN hookItem
                   ELSE setItemCaught(hookItem, serialize(value), setItem)
    /\ hookWritten' = value
    /\ lastCall' = [op |-> "setState", key |-> "hook",
                    stored |-> IF setItem = "ok" THEN "saved" ELSE "failed",
                    default |-> undefined, value |-> value,
                    returned |-> undefined, raised |-> FALSE]
    /\ UNCHANGED <<mockItem, mockStore, mockWritten>>

\* A render reads the state the hook returns.
ReadState ==
    /\ hook.mounted
    /\ lastCall' = [op |-> "read", key |-> "hook", stored |-> "memory",
                    default |-> hook.initialValue, value |-> undefined,
                    returned |-> hook.state, raised |-> FALSE]
    /\ UNCHANGED <<hookItem, hook, hookWritten, mockItem, mockStore, mockWritten>>

\* The page goes away: the hook's state is gone, the item stays.
Unmount ==
    /\ hook.mounted
    /\ hook' = [mounted |-> FALSE, state |-> undefined, initialValue |-> undefined]
    /\ hookWritten' = undefined
    /\ lastCall' = noCall("unmount")
    /\ UNCHANGED <<hookItem, mockItem, mockStore, mockWritten>>

\* resetState: setState(initialValue)
ResetState(setItem) == SetState(hook.initialValue, setItem)

\* An earlier run leaves localStorage['electron-store-mock'] behind.
MockItemLeft(item) ==
    /\ ~mockStore.constructed
    /\ mockItem' = item
    /\ lastCall' = noCall("left")
    /\ UNCHANGED <<hookItem, hook, hookWritten, mockStore, mockWritten>>

\* new MockElectronStore({ defaults }): this.store = { ...defaults }, then
\* loadFromLocalStorage().
Construct(defaults, getItem) ==
    /\ ~mockStore.constructed
    /\ mockStore' = [constructed |-> TRUE,
                     store |-> loadFromLocalStorage(defaults, getItem, mockItem),
                     defaults |-> defaults]
    /\ mockWritten' = noEntries
    /\ lastCall' = [op |-> "construct", key |-> "none",
                    stored |-> IF getItem = "throws" THEN "unreadable"
                               ELSE mockItem.kind,
                    default |-> undefined, value |-> undefined,
                    returned |-> undefined, raised |-> FALSE]
    /\ UNCHANGED <<hookItem, hook, hookWritten, mockItem>>

\* store.get(key, defaultValue)
MockGet(key, defaultValue) ==
    /\ mockStore.constructed
    /\ lastCall' = [op |-> "get", key |-> key,
                    stored |-> IF mockStore.store[key] = undefined
                               THEN "absent" ELSE "present",
                    default |-> defaultValue, value |-> undefined,
                    returned |-> mockGet(mockStore.store, key, defaultValue),
                    raised |-> FALSE]
    /\ UNCHANGED <<hookItem, hook, hookWritten, mockItem, mockStore, mockWritten>>

\* store.set(key, value): this.store[key] = value; this.persist(), whose
\* setItem is inside try/catch.
MockSet(key, value, setItem) ==
    /\ mockStore.constructed
    /\ LET store == mockSet(mockStore.store, key, value, setItem) IN
        /\ mockStore' = [mockStore EXCEPT !.store = store]
        /\ mockItem' = setItemCaught(mockItem, serialize(store), setItem)
    /\ mockWritten' = [mockWritten EXCEPT ![key] = value]
    /\ lastCall' = [op |-> "set", key |-> key,
                    stored |-> IF setItem = "ok" THEN "saved" ELSE "failed",
                    default |-> undefined, value |-> value,
                    returned |-> undefined, raised |-> FALSE]
    /\ UNCHANGED <<hookItem, hook, hookWritten>>

\* The process ends: the instance is gone, the item stays.
MockExit ==
    /\ mockStore.constructed
    /\ mockStore' = [constructed |-> FALSE, store |-> noEntries,
                     defaults |-> noEntries]
    /\ mockWritten' = noEntries
    /\ lastCall' = noCall("exit")
    /\ UNCHANGED <<hookItem, hook, hookWritten, mockItem>>

StoreNext ==
    \/ \E item \in HookItems : HookItemLeft(item) /\ UNCHANGED exceptStoreVars
    \/ \E initialValue \in Values, getItem \in Outcomes, setItem \in Outcomes :
          Mount(initialValue, getItem, setItem) /\ UNCHANGED exceptStoreVars
    \/ \E value \in Values, setItem \in Outcomes :
          SetState(value, setItem) /\ UNCHANGED exceptStoreVars
    \/ \E setItem \in Outcomes : ResetState(setItem) /\ UNCHANGED exceptStoreVars
    \/ ReadState /\ UNCHANGED exceptStoreVars
    \/ Unmount /\ UNCHANGED exceptStoreVars
    \/ \E item \in MockItems : MockItemLeft(item) /\ UNCHANGED exceptStoreVars
    \/ \E defaults \in MockDefaults, getItem \in Outcomes :
          Construct(defaults, getItem) /\ UNCHANGED exceptStoreVars
    \/ \E key \in StoreKeys, defaultValue \in Values :
          MockGet(key, defaultValue) /\ UNCHANGED exceptStoreVars
    \/ \E key \in StoreKeys, value \in Values, setItem \in Outcomes :
          MockSet(key, value, setItem) /\ UNCHANGED exceptStoreVars
    \/ MockExit /\ UNCHANGED exceptStoreVars

\* The two local stores, over process lifetimes.
StoreSpec == Init /\ [][StoreNext]_vars

\* ------------------------------------------------------------------ server: request handlers

\* Each handler below is one request handled from start to finish with no
\* other request in between; every payload call of trackActivity succeeds.
\* trackActivity's update of the 'users' document touches no session and is
\* left out.

\* A request to a route registered after trackActivity other than
\* resume-session (GET /): trackActivity, then the route's redirect.
TrackedRequest(reqUser) ==
    /\ reqs = <<>>
    /\ IF reqUser = NoUser
       THEN /\ lastRequest' = [kind |-> "tracked", response |-> 302, found |-> 0]
            /\ UNCHANGED sessions
       ELSE \E session \in Found(sessions, reqUser) :
            /\ sessions' = trackSession(sessions, session, clock)
            /\ lastRequest' = [kind |-> "tracked", response |-> 302, found |-> session]
    /\ replied' = noSession
    /\ UNCHANGED <<clock, reqs, base>>

\* return res.json(session): session is the constant findByID assigned; the
\* update's result is not assigned to it.
resumeBody(session, updated) == session

\* The resume-session route on the collection S: the response status, the
\* collection afterwards and the session record in the response body.  With dbFails a payload call throws and the
\* catch answers 500.
resumeRoute(S, reqUser, id, t, dbFails) ==
    IF reqUser = NoUser THEN [response |-> 401, sessions |-> S, body |-> noSession]
    ELSE IF dbFails THEN [response |-> 500, sessions |-> S, body |-> noSession]
    ELSE IF S[id] = noSession \/ ownerMismatch(S[id], reqUser)
         THEN [response |-> 403, sessions |-> S, body |-> noSession]
    ELSE IF S[id].status = "paused"
         THEN [response |-> 200, sessions |-> payloadUpdate(S, id, resumeData(t), t),
               body |-> resumeBody(S[id], payloadUpdate(S, id, resumeData(t), t)[id])]
    ELSE [response |-> 200, sessions |-> S, body |-> S[id]]

\* GET /api/resume-session/:id: trackActivity, then the route.
ResumeSession(reqUser, id, dbFails) ==
    /\ reqs = <<>>
    /\ \E session \in (IF reqUser = NoUser THEN {0} ELSE Found(sessions, reqUser)) :
        LET tracked == trackSession(sessions, session, clock)
            r == resumeRoute(tracked, reqUser, id, clock, dbFails)
        IN  /\ sessions' = r.sessions
            /\ replied' = r.body
            /\ lastRequest' = [kind |-> "resume", response |-> r.response,
                               found |-> session]
    /\ UNCHANGED <<clock, reqs, base>>

\* saveState on the collection S.
saveStateRoute(S, reqUser, id, context, t, dbFails) ==
    IF reqUser = NoUser THEN [response |-> 401, sessions |-> S]
    ELSE IF dbFails THEN [response |-> 500, sessions |-> S]
    ELSE IF S[id] = noSession \/ ownerMismatch(S[id], reqUser)
         THEN [response |-> 403, sessions |-> S]
    ELSE [response |-> 200,
          sessions |-> payloadUpdate(S, id, saveStateData(context, t), t)]

\* POST /api/session-tracking/save-state with body { sessionId, context }.
\* The endpoint is mounted by payload.init, ahead of app.use(trackActivity),
\* and answers without calling next: trackActivity does not run for it.
SaveState(reqUser, id, context, dbFails) ==
    /\ reqs = <<>>
    /\ LET r == saveStateRoute(sessions, reqUser, id, context, clock, dbFails) IN
        /\ sessions' = r.sessions
        /\ lastRequest' = [kind |-> "save", response |-> r.response, found |-> 0]
    /\ replied' = noSession
    /\ UNCHANGED <<clock, reqs, base>>

\* An authenticated user creates a session document through Payload's
\* collection API.
CreateSession(reqUser) ==
    /\ reqs = <<>>
    /\ \E id \in SessionIds :
        /\ sessions[id] = noSession
        /\ \A other \in SessionIds : other < id => sessions[other] # noSession
        /\ sessions' = payloadCreate(sessions, id, noData, clock, reqUser)
        /\ lastRequest' = [kind |-> "create", response |-> 201, found |-> 0]
    /\ replied' = noSession
    /\ UNCHANGED <<clock, reqs, base>>

\* The owner completes a session through Payload's collection API: an
\* update whose data sets status to 'completed'.
CompleteSession(id, form) ==
    /\ reqs = <<>>
    /\ sessions[id] # noSession
    /\ sessions' = payloadUpdate(sessions, id, completionData(sessions[id], form), clock)
    /\ lastRequest' = [kind |-> "complete", response |-> 200, found |-> 0]
    /\ replied' = noSession
    /\ UNCHANGED <<clock, reqs, base>>

\* Time passes with no request.
Advance(instant) ==
    /\ reqs = <<>>
    /\ instant > clock
    /\ clock' = instant
    /\ lastRequest' = [kind |-> "advance", response |-> 0, found |-> 0]
    /\ replied' = noSession
    /\ UNCHANGED <<sessions, reqs, base>>

ServerNext ==
    \/ \E reqUser \in Users \cup {NoUser} :
          TrackedRequest(reqUser) /\ UNCHANGED exceptSessionVars
    \/ \E reqUser \in Users \cup {NoUser}, id \in SessionIds, dbFails \in BOOLEAN :
          ResumeSession(reqUser, id, dbFails) /\ UNCHANGED exceptSessionVars
    \/ \E reqUser \in Users \cup {NoUser}, id \in SessionIds, context \in Contexts,
          dbFails \in BOOLEAN :
          SaveState(reqUser, id, context, dbFails) /\ UNCHANGED exceptSessionVars
    \/ \E reqUser \in Owners : CreateSession(reqUser) /\ UNCHANGED exceptSessionVars
    \/ \E id \in SessionIds :
          CompleteSession(id, "statusOnly") /\ UNCHANGED exceptSessionVars
    \/ \E instant \in Instants : Advance(instant) /\ UNCHANGED exceptSessionVars

\* The server starts with empty collections; the browser's variables play
\* no part.
ServerInit == Init /\ navigatorOnLine

\* The server handling one request after another; sessions are completed
\* by an update that carries the status alone.
ServerSpec == ServerInit /\ [][ServerNext]_vars

\* Sessions started, tracked and completed, with both forms of the
\* completing update.
CompletionNext ==
    \/ \E reqUser \in Owners : CreateSession(reqUser) /\ UNCHANGED exceptSessionVars
    \/ \E reqUser \in Owners : TrackedRequest(reqUser) /\ UNCHANGED exceptSessionVars
    \/ \E id \in SessionIds, form \in CompletionForms :
          CompleteSession(id, form) /\ UNCHANGED exceptSessionVars
    \/ \E instant \in Instants : Advance(instant) /\ UNCHANGED exceptSessionVars

CompletionSpec == ServerInit /\ [][CompletionNext]_vars

\* ------------------------------------------------------------------ server: two requests at once

\* Two requests of one user in flight together.  Every await of a handler is
\* a point where the other request may run, so each payload call is a step
\* of its own.  A request in flight records its route, its user, the session
\* id it names (0 for a route that names none), the call it is about to
\* make, and what its reads returned: the session find returned and that
\* document's lastActive, and the status findByID returned.
RequestKinds == {"tracked", "resume", "save", "complete"}

\* The first payload call of a route: trackActivity's find for the routes
\* behind the middleware, findByID for save-state, the update itself for a
\* completion through the collection API.
firstCall(kind) ==
    IF kind \in {"tracked", "resume"} THEN "find"
    ELSE IF kind = "save" THEN "findByID"
    ELSE "update"

\* next(): the route handler after trackActivity.
afterTrack(kind) == IF kind = "resume" THEN "findByID" ELSE "done"

request(kind, reqUser, id) ==
    [kind |-> kind, user |-> reqUser, id |-> id, pc |-> firstCall(kind),
     found |-> 0, seenLastActive |-> NoDate, seenStatus |-> "none"]

\* Two requests of reqUser arrive: a tracked one and a second one of any
\* route; a route that names a session names one of reqUser's.
Arrive(reqUser, kind, id) ==
    /\ reqs = <<>>
    /\ IF kind = "tracked" THEN id = 0
       ELSE id \in SessionIds /\ sessions[id].user = reqUser
    /\ reqs' = <<request("tracked", reqUser, 0), request(kind, reqUser, id)>>
    /\ base' = sessions
    /\ lastRequest' = [kind |-> "concurrent", response |-> 0, found |-> 0]
    /\ replied' = noSession
    /\ UNCHANGED <<sessions, clock>>

\* const sessions = await payload.find(...); const session = sessions.docs[0]
TrackFind(i) ==
    /\ i \in DOMAIN reqs
    /\ reqs[i].pc = "find"
    /\ \E session \in Found(sessions, reqs[i].user) :
        reqs' = [reqs EXCEPT ![i] =
                    IF session = 0
                    THEN [@ EXCEPT !.pc = afterTrack(reqs[i].kind)]
                    ELSE [@ EXCEPT !.found = session,
                                   !.seenLastActive = sessions[session].lastActive,
                                   !.pc = "touch"]]
    /\ UNCHANGED <<sessions, clock, lastRequest, base, replied>>

\* await payload.update({ id: session.id, data: { lastActive: now } }), then
\* the comparison of the lastActive that find returned.
TrackTouch(i) ==
    /\ i \in DOMAIN reqs
    /\ reqs[i].pc = "touch"
    /\ sessions' = payloadUpdate(sessions, reqs[i].found,
                                 [noData EXCEPT !.lastActive = clock], clock)
    /\ reqs' = [reqs EXCEPT ![i].pc =
                    IF exceedsTimeout(clock - reqs[i].seenLastActive)
                    THEN "pause" ELSE afterTrack(reqs[i].kind)]
    /\ UNCHANGED <<clock, lastRequest, base, replied>>

\* await payload.update({ id: session.id, data: { status: 'paused' } })
TrackPause(i) ==
    /\ i \in DOMAIN reqs
    /\ reqs[i].pc = "pause"
    /\ sessions' = payloadUpdate(sessions, reqs[i].found,
                                 [noData EXCEPT !.status = "paused"], clock)
    /\ reqs' = [reqs EXCEPT ![i].pc = afterTrack(reqs[i].kind)]
    /\ UNCHANGED <<clock, lastRequest, base, replied>>

\* const session = await payload.findByID(...), the 403 check, and for
\* resume-session the test of session.status.
RouteFindByID(i) ==
    /\ i \in DOMAIN reqs
    /\ reqs[i].pc = "findByID"
    /\ LET session == sessions[reqs[i].id] IN
        reqs' = [reqs EXCEPT ![i] =
                    IF session = noSession \/ ownerMismatch(session, reqs[i].user)
                    THEN [@ EXCEPT !.pc = "done"]
                    ELSE [@ EXCEPT !.seenStatus = session.status,
                                   !.pc = IF reqs[i].kind = "resume" /\ session.status # "paused"
                                          THEN "done" ELSE "update"]]
    /\ UNCHANGED <<sessions, clock, lastRequest, base, replied>>

\* The route's payload.update: resume-session's, save-state's, or the
\* completing update.
RouteUpdate(i, context) ==
    /\ i \in DOMAIN reqs
    /\ reqs[i].pc = "update"
    /\ sessions' = payloadUpdate(sessions, reqs[i].id,
                                 CASE reqs[i].kind = "resume" -> resumeData(clock)
                                   [] reqs[i].kind = "save" -> saveStateData(context, clock)
                                   [] OTHER -> completionData(sessions[reqs[i].id], "statusOnly"),
                                 clock)
    /\ reqs' = [reqs EXCEPT ![i].pc = "done"]
    /\ UNCHANGED <<clock, lastRequest, base, replied>>

\* Both responses are sent.
BothAnswered ==
    /\ reqs # <<>>
    /\ \A i \in DOMAIN reqs : reqs[i].pc = "done"
    /\ reqs' = <<>>
    /\ base' = [id \in SessionIds |-> noSession]
    /\ UNCHANGED <<sessions, clock, lastRequest, replied>>

\* The collections a request can leave when it is handled alone on S at
\* time t, one for each document find may return.
handledAlone(S, r, t) ==
    CASE r.kind = "tracked" ->
            {trackSession(S, session, t) : session \in Found(S, r.user)}
      [] r.kind = "resume" ->
            {resumeRoute(trackSession(S, session, t), r.user, r.id, t, FALSE).sessions :
                session \in Found(S, r.user)}
      [] r.kind = "save" ->
            {saveStateRoute(S, r.user, r.id, Ctx, t, FALSE).sessions : Ctx \in Contexts}
      [] OTHER ->
            {payloadUpdate(S, r.id, completionData(S[r.id], "statusOnly"), t)}

\* The collections the two requests can leave when one is handled after
\* the other, in either order.
sequentialOutcomes(S, r1, r2, t) ==
    UNION {handledAlone(S1, r2, t) : S1 \in handledAlone(S, r1, t)}
    \cup UNION {handledAlone(S2, r1, t) : S2 \in handledAlone(S, r2, t)}

ConcurrentNext ==
    \/ \E reqUser \in Owners : CreateSession(reqUser) /\ UNCHANGED exceptSessionVars
    \/ \E reqUser \in Owners : TrackedRequest(reqUser) /\ UNCHANGED exceptSessionVars
    \/ \E instant \in Instants : Advance(instant) /\ UNCHANGED exceptSessionVars
    \/ \E reqUser \in Owners, kind \in RequestKinds, id \in SessionIds \cup {0} :
          Arrive(reqUser, kind, id) /\ UNCHANGED exceptSessionVars
    \/ \E i \in 1..2 : TrackFind(i) /\ UNCHANGED exceptSessionVars
    \/ \E i \in 1..2 : TrackTouch(i) /\ UNCHANGED exceptSessionVars
    \/ \E i \in 1..2 : TrackPause(i) /\ UNCHANGED exceptSessionVars
    \/ \E i \in 1..2 : RouteFindByID(i) /\ UNCHANGED exceptSessionVars
    \/ \E i \in 1..2, context \in Contexts :
          RouteUpdate(i, context) /\ UNCHANGED exceptSessionVars
    \/ BothAnswered /\ UNCHANGED exceptSessionVars

\* The server with pairs of requests of one user handled at once.
ConcurrentSpec == ServerInit /\ [][ConcurrentNext]_vars

\* ------------------------------------------------------------------ server: workspaces, projects, tasks (operations)

\* Creates and updates arrive through Payload's collection API.  A
\* collection that declares no create (update) access gets Payload's
\* default: any logged-in user.
LoggedIn == Users \cup {AdminUser}

MemberSets == SUBSET Users
TaskStatuses == {"to-do", "completed"}

\* The data an update of the workspace may carry: none of the modelled
\* fields (a rename), a new owner, or the whole document as the admin form
\* submits it.
workspaceUpdates(doc) ==
    {noWorkspaceData, doc} \cup {[noWorkspaceData EXCEPT !.owner = userId] : userId \in Users}

CreateWorkspace(reqUser, owner, members) ==
    /\ workspaceDoc = noWorkspace
    /\ workspaceDoc' = mergeWorkspace(noWorkspace,
                          workspacesBeforeChange([noWorkspaceData EXCEPT !.owner = owner,
                                                                        !.members = members],
                                                 clock, reqUser))
    /\ UNCHANGED <<projectDoc, taskDoc, lastAccess>>

UpdateWorkspace(reqUser, data) ==
    /\ workspaceDoc # noWorkspace
    /\ workspacesUpdate(reqUser, workspaceDoc)
    /\ workspaceDoc' = mergeWorkspace(workspaceDoc,
                                      workspacesBeforeChange(data, clock, reqUser))
    /\ UNCHANGED <<projectDoc, taskDoc, lastAccess>>

DeleteWorkspace(reqUser) ==
    /\ workspaceDoc # noWorkspace
    /\ workspacesDelete(reqUser, workspaceDoc)
    /\ workspaceDoc' = noWorkspace
    /\ lastAccess' = [collection |-> "workspaces", operation |-> "delete",
                      user |-> reqUser, id |-> 0, granted |-> TRUE]
    /\ UNCHANGED <<projectDoc, taskDoc>>

\* The data an update of the project may carry: none of the modelled fields,
\* or the whole document.
projectUpdates(doc) == {noProjectData, doc}

CreateProject(reqUser, assignees) ==
    /\ projectDoc = noProject
    /\ workspaceDoc # noWorkspace
    /\ projectDoc' = mergeProject(noProject,
                        projectsBeforeChange([noProjectData EXCEPT !.assignees = assignees],
                                             clock, reqUser))
    /\ UNCHANGED <<workspaceDoc, taskDoc, lastAccess>>

UpdateProject(reqUser, data) ==
    /\ projectDoc # noProject
    /\ projectDoc' = mergeProject(projectDoc, projectsBeforeChange(data, clock, reqUser))
    /\ UNCHANGED <<workspaceDoc, taskDoc, lastAccess>>

\* The data an update of the task may carry: none of the modelled fields (a
\* new title), a status alone, or the whole document with a status.
taskUpdates(doc) ==
    {noTaskData}
    \cup {[noTaskData EXCEPT !.status = status] : status \in TaskStatuses}
    \cup {[doc EXCEPT !.status = status] : status \in TaskStatuses}

\* status has defaultValue 'to-do', so the data of a create carries one.
CreateTask(reqUser, assignee, status, completedDate) ==
    /\ taskDoc = noTask
    /\ projectDoc # noProject
    /\ taskDoc' = mergeTask(noTask,
                     tasksBeforeChange([noTaskData EXCEPT !.assignee = assignee,
                                                          !.status = status,
                                                          !.completedDate = completedDate],
                                       "create", clock, reqUser))
    /\ UNCHANGED <<workspaceDoc, projectDoc, lastAccess>>

UpdateTask(reqUser, data) ==
    /\ taskDoc # noTask
    /\ taskDoc' = mergeTask(taskDoc, tasksBeforeChange(data, "update", clock, reqUser))
    /\ UNCHANGED <<workspaceDoc, projectDoc, lastAccess>>

\* Whether the document exists that an access function is applied to.
exists(collection, id) ==
    CASE collection = "sessions" -> id \in SessionIds /\ sessions[id] # noSession
      [] collection = "workspaces" -> id = 0 /\ workspaceDoc # noWorkspace
      [] collection = "projects" -> id = 0 /\ projectDoc # noProject
      [] OTHER -> id = 0 /\ taskDoc # noTask

\* The verdict of the collection's access function for the operation.
granted(collection, operation, reqUser, id) ==
    CASE collection = "sessions" -> sessionsAccess(reqUser, sessions[id])
      [] collection = "workspaces" /\ operation = "read" ->
            workspacesRead(reqUser, workspaceDoc)
      [] collection = "workspaces" /\ operation = "update" ->
            workspacesUpdate(reqUser, workspaceDoc)
      [] collection = "workspaces" /\ operation = "delete" ->
            workspacesDelete(reqUser, workspaceDoc)
      [] collection = "projects" -> projectsRead(reqUser, projectDoc, workspaceDoc)
      [] OTHER -> tasksRead(reqUser, taskDoc, workspaceDoc)

\* Payload evaluates the access function of an operation for a caller
\* against a stored document.
CheckAccess(collection, operation, reqUser, id) ==
    /\ <<collection, operation>> \in DeclaredAccess
    /\ exists(collection, id)
    /\ lastAccess' = [collection |-> collection, operation |-> operation,
                      user |-> reqUser, id |-> id,
                      granted |-> granted(collection, operation, reqUser, id)]
    /\ UNCHANGED <<workspaceDoc, projectDoc, taskDoc>>

\* Documents are created and the access functions evaluated on them.
AccessNext ==
    \/ \E reqUser \in Owners : CreateSession(reqUser) /\ UNCHANGED exceptSessionVars
    \/ \E reqUser \in Owners, owner \in LoggedIn, members \in MemberSets :
          /\ CreateWorkspace(reqUser, owner, members)
          /\ UNCHANGED <<clientVars, sessionVars, trackVars>>
    \/ \E reqUser \in Owners, assignees \in MemberSets :
          /\ CreateProject(reqUser, assignees)
          /\ UNCHANGED <<clientVars, sessionVars, trackVars>>
    \/ \E reqUser \in Owners, assignee \in Users \cup {"none"} :
          /\ CreateTask(reqUser, assignee, "to-do", Absent)
          /\ UNCHANGED <<clientVars, sessionVars, trackVars>>
    \/ \E access \in DeclaredAccess, reqUser \in Callers, id \in SessionIds \cup {0} :
          /\ CheckAccess(access[1], access[2], reqUser, id)
          /\ UNCHANGED <<clientVars, sessionVars, trackVars>>

AccessSpec == ServerInit /\ [][AccessNext]_vars

\* A workspace and a project in it, created, updated and deleted over time.
WorkspaceNext ==
    \/ \E reqUser \in LoggedIn, owner \in Users \cup {"absent"}, members \in MemberSets :
          /\ CreateWorkspace(reqUser, owner, members)
          /\ UNCHANGED <<clientVars, sessionVars, trackVars>>
    \/ \E reqUser \in LoggedIn, data \in workspaceUpdates(workspaceDoc) :
          /\ UpdateWorkspace(reqUser, data)
          /\ UNCHANGED <<clientVars, sessionVars, trackVars>>
    \/ \E reqUser \in LoggedIn :
          /\ DeleteWorkspace(reqUser)
          /\ UNCHANGED <<clientVars, sessionVars, trackVars>>
    \/ \E reqUser \in LoggedIn, assignees \in MemberSets :
          /\ CreateProject(reqUser, assignees)
          /\ UNCHANGED <<clientVars, sessionVars, trackVars>>
    \/ \E reqUser \in LoggedIn, data \in projectUpdates(projectDoc) :
          /\ UpdateProject(reqUser, data)
          /\ UNCHANGED <<clientVars, sessionVars, trackVars>>
    \/ \E instant \in Instants : Advance(instant) /\ UNCHANGED exceptSessionVars

WorkspaceSpec == ServerInit /\ [][WorkspaceNext]_vars

\* A task created and updated over time.
TaskNext ==
    \/ \E reqUser \in Owners, owner \in Owners, members \in {{}} :
          /\ CreateWorkspace(reqUser, owner, members)
          /\ UNCHANGED <<clientVars, sessionVars, trackVars>>
    \/ \E reqUser \in Owners, assignees \in {{}} :
          /\ CreateProject(reqUser, assignees)
          /\ UNCHANGED <<clientVars, sessionVars, trackVars>>
    \/ \E reqUser \in Owners, assignee \in Owners, status \in TaskStatuses,
          completedDate \in {Absent} \cup Instants :
          /\ completedDate <= clock
          /\ CreateTask(reqUser, assignee, status, completedDate)
          /\ UNCHANGED <<clientVars, sessionVars, trackVars>>
    \/ \E reqUser \in LoggedIn, data \in taskUpdates(taskDoc) :
          /\ UpdateTask(reqUser, data)
          /\ UNCHANGED <<clientVars, sessionVars, trackVars>>
    \/ \E instant \in Instants : Advance(instant) /\ UNCHANGED exceptSessionVars

TaskSpec == ServerInit /\ [][TaskNext]_vars

\* ------------------------------------------------------------------ server: trackActivity with failing calls

\* How often next() has been called when trackActivity returns: the call
\* stands after the try/catch, outside the `if (req.user)`.
nextCallsAfter_insideTry(caught) == IF caught THEN 0 ELSE 1
nextCallsAfter(caught) == 1

\* One run of trackActivity for reqUser at time t on the sessions S and the
\* users' lastActive U, with `session` the document find returns and
\* `failure` the payload call that throws: the collections afterwards, the
\* calls that completed, and whether the catch block ran.
trackActivity(S, U, reqUser, session, t, failure) ==
    IF reqUser = NoUser
    THEN [sessions |-> S, users |-> U, made |-> <<>>, caught |-> FALSE]
    ELSE IF failure = "updateUser"
    THEN [sessions |-> S, users |-> U, made |-> <<>>, caught |-> TRUE]
    ELSE LET U1 == [U EXCEPT ![reqUser] = t] IN
         IF failure = "find"
         THEN [sessions |-> S, users |-> U1, made |-> <<"updateUser">>, caught |-> TRUE]
         ELSE IF session = 0
         THEN [sessions |-> S, users |-> U1, made |-> <<"updateUser", "find">>,
               caught |-> FALSE]
         ELSE IF failure = "updateLastActive"
         THEN [sessions |-> S, users |-> U1, made |-> <<"updateUser", "find">>,
               caught |-> TRUE]
         ELSE LET touched == payloadUpdate(S, session, [noData EXCEPT !.lastActive = t], t)
                  timeSinceLastActive == t - S[session].lastActive
              IN  IF ~exceedsTimeout(timeSinceLastActive)
                  THEN [sessions |-> touched, users |-> U1,
                        made |-> <<"updateUser", "find", "updateLastActive">>,
                        caught |-> FALSE]
                  ELSE IF failure = "updatePaused"
                  THEN [sessions |-> touched, users |-> U1,
                        made |-> <<"updateUser", "find", "updateLastActive">>,
                        caught |-> TRUE]
                  ELSE [sessions |-> payloadUpdate(touched, session,
                                                   [noData EXCEPT !.status = "paused"], t),
                        users |-> U1,
                        made |-> <<"updateUser", "find", "updateLastActive",
                                   "updatePaused">>,
                        caught |-> FALSE]

\* A request passes through trackActivity; `failure` is the call that
\* throws, if the run gets to it.
TrackActivity(reqUser, failure) ==
    /\ reqs = <<>>
    /\ \E session \in (IF reqUser = NoUser THEN {0} ELSE Found(sessions, reqUser)) :
        LET r == trackActivity(sessions, userLastActive, reqUser, session, clock, failure)
            seen == IF "find" \in Range(r.made) THEN session ELSE 0
        IN  /\ sessions' = r.sessions
            /\ userLastActive' = r.users
            /\ lastTrack' = [user |-> reqUser, made |-> r.made,
                             nextCalls |-> nextCallsAfter(r.caught), found |-> seen,
                             caught |-> r.caught, raised |-> FALSE]
            /\ lastRequest' = [kind |-> "tracked", response |-> 302, found |-> seen]
    /\ replied' = noSession
    /\ UNCHANGED <<clock, reqs, base>>

TrackingNext ==
    \/ \E reqUser \in Owners :
          CreateSession(reqUser) /\ UNCHANGED exceptSessionVars
    \/ \E instant \in Instants : Advance(instant) /\ UNCHANGED exceptSessionVars
    \/ \E reqUser \in Users \cup {NoUser}, failure \in Failures :
          /\ TrackActivity(reqUser, failure)
          /\ UNCHANGED <<clientVars, contentVars>>

TrackingSpec == ServerInit /\ [][TrackingNext]_vars

\* ------------------------------------------------------------------ server: sessions created with dates

\* The startedAt and lastActive a create may supply, as the seed script
\* does: nothing, or a date.
SuppliedDates == {Absent, 14 * 60 * 1000}

\* A session is created with data that may carry startedAt and lastActive.
CreateSessionFrom(reqUser, startedAt, lastActive) ==
    /\ reqs = <<>>
    /\ \E id \in SessionIds :
        /\ sessions[id] = noSession
        /\ \A other \in SessionIds : other < id => sessions[other] # noSession
        /\ sessions' = payloadCreate(sessions, id,
                                     [noData EXCEPT !.startedAt = startedAt,
                                                    !.lastActive = lastActive],
                                     clock, reqUser)
        /\ lastRequest' = [kind |-> IF startedAt = Absent THEN "create" ELSE "createDated",
                           response |-> 201, found |-> 0]
    /\ replied' = noSession
    /\ UNCHANGED <<clock, reqs, base>>

\* Sessions from their creation on, under tracked requests, resume-session
\* and save-state.
LifetimeNext ==
    \/ \E reqUser \in Owners, startedAt \in SuppliedDates, lastActive \in SuppliedDates :
          CreateSessionFrom(reqUser, startedAt, lastActive) /\ UNCHANGED exceptSessionVars
    \/ \E reqUser \in Owners : TrackedRequest(reqUser) /\ UNCHANGED exceptSessionVars
    \/ \E reqUser \in Owners, id \in SessionIds :
          ResumeSession(reqUser, id, FALSE) /\ UNCHANGED exceptSessionVars
    \/ \E reqUser \in Owners, id \in SessionIds, context \in Contexts :
          SaveState(reqUser, id, context, FALSE) /\ UNCHANGED exceptSessionVars
    \/ \E instant \in Instants : Advance(instant) /\ UNCHANGED exceptSessionVars

LifetimeSpec == ServerInit /\ [][LifetimeNext]_vars

\* ------------------------------------------------------------------ claims

\* C1: the operations whose executeOperation succeeded, in the order they
\* succeeded, are a prefix of the operations in the order addToQueue took
\* them: none is delivered before an earlier one and none is skipped.
C1_DeliveredIsPrefixOfEnqueued ==
    /\ Len(delivered) <= Len(enqueued)
    /\ \A i \in 1..Len(delivered) : delivered[i] = enqueued[i]

\* Two operations have been delivered, the second after the first.
C1_Witness == Len(delivered) >= 2 /\ lastEvent.name = "executeSucceeded"

\* C2: with every executeOperation succeeding, one drain trigger empties the
\* queue: whenever the service is online with no call outstanding and no
\* call has ever failed, nothing is left in the queue.
C2_OneTriggerDrainsAll ==
    (isOnline /\ calls = <<>> /\ ~everFailed) => queue = <<>>

\* C3: if the client ends up online for good and no failed attempt is left
\* unretried, every operation taken by addToQueue is eventually delivered
\* and out of the queue.
C3_EveryOperationDelivered ==
    (<>[](isOnline /\ failedHead = 0)) =>
        \A id \in 1..MaxOps :
            (id \in Ids(queue)) ~> (id \in Range(delivered) /\ id \notin Ids(queue))

\* C4: at most one executeOperation call is outstanding, an outstanding call
\* keeps isSyncing set, and a processQueue that runs while isSyncing is set
\* starts no call.
C4_OneCallOutstanding ==
    [][ /\ Len(calls') <= 1
        /\ (calls' # <<>> => isSyncing')
        /\ (isSyncing => lastEvent'.drain # "started")
        /\ (lastEvent'.drain = "busy" => calls' = IF lastEvent'.name = "executeSucceeded"
                                                  THEN <<>> ELSE calls) ]_vars

\* An 'online' event arrived while a call was outstanding and started nothing.
C4_Witness ==
    lastEvent = [name |-> "online", drain |-> "busy"] /\ Len(calls) = 1

C6_QueueSurvivesReload == queue = owed

\* C7: a failed attempt leaves the queue and the delivered operations as
\* they were, with isSyncing reset and no call outstanding; until a trigger
\* ('online' or addToQueue) nothing is attempted; and the attempt that
\* trigger starts is of the same head operation.
C7_FailureBlocksAtHead ==
    [][ /\ lastEvent'.name = "executeFailed" =>
              /\ queue' = queue
              /\ delivered' = delivered
              /\ ~isSyncing'
              /\ calls' = <<>>
              /\ queue # <<>>
              /\ queue[1].id = failedHead'
        /\ failedHead # 0 =>
              /\ calls = <<>>
              /\ queue # <<>>
              /\ queue[1].id = failedHead
              /\ lastEvent'.name \notin {"online", "addToQueue"} =>
                    (calls' = <<>> /\ failedHead' = failedHead)
              /\ lastEvent'.drain = "started" =>
                    (calls' = <<queue[1]>> /\ delivered' = delivered) ]_vars

\* The head failed with another operation waiting behind it.
C7_Witness == failedHead # 0 /\ Len(queue) >= 2 /\ lastEvent.name = "executeFailed"

\* Retry after a failure: a trigger started the failed head again.
C7_RetryWitness ==
    everFailed /\ lastEvent.drain = "started" /\ calls # <<>> /\ Len(queue) >= 2

C9_StrictlyNewer(remote, local) ==
    /\ remote.updatedAt # InvalidDate
    /\ local.updatedAt # InvalidDate
    /\ remote.updatedAt > local.updatedAt

\* C9: getWorkspace returns the backend's copy, and writes it over the local
\* copy, exactly when the fetch succeeded with a copy and the local copy it
\* read is absent or strictly older; otherwise it returns the local copy it
\* read and the local store is as it was.
C9_RemoteWinsOnlyIfStrictlyNewer ==
    [][ (getCall'.pc = "returned" /\ getCall' # getCall) =>
          LET c == getCall'
              remoteWins ==
                  /\ navigatorOnLine \/ getCall.pc = "fetching"
                  /\ c.fetch = "ok"
                  /\ backend[c.id] # null
                  /\ c.local = null \/ C9_StrictlyNewer(backend[c.id], c.local)
          IN  /\ getCall.pc # "fetching" => c.local = localStore[c.id]
              /\ IF remoteWins
                 THEN /\ c.result = backend[c.id]
                      /\ localStore' = [localStore EXCEPT ![c.id] = backend[c.id]]
                 ELSE /\ c.result = c.local
                      /\ localStore' = localStore ]_vars

\* The tie: the fetch returned a copy with the local copy's timestamp and
\* other content, and the local copy was returned.
C9_Witness ==
    /\ getCall.pc = "returned"
    /\ getCall.fetch = "ok"
    /\ getCall.local # null
    /\ getCall.fetched # null
    /\ getCall.fetched.updatedAt = getCall.local.updatedAt
    /\ getCall.fetched.updatedAt # InvalidDate
    /\ getCall.fetched # getCall.local
    /\ getCall.result = getCall.local

\* The backend's strictly newer copy was returned and is now the local copy.
C9_NewerWitness ==
    /\ getCall.pc = "returned"
    /\ getCall.local # null
    /\ getCall.result = getCall.fetched
    /\ getCall.result # getCall.local
    /\ localStore[getCall.id] = getCall.result

\* C10: right after restoreFromRecoveryPoint(id) succeeded, the application
\* state is the state that createRecoveryPoint captured for that id.
C10_RestoreGivesCapturedState ==
    lastRestore.status = "restored" => appState = captured[lastRestore.id]

\* C11: the recovery point log only grows and its entries stay as they were
\* appended, and the snapshot stored under each entry's stateKey is the state
\* captured when that entry was created, also after later createRecoveryPoint
\* calls with an equal timestamp.
C11_LogAppendOnly ==
    [][ /\ Len(recoveryPoints') >= Len(recoveryPoints)
        /\ SubSeq(recoveryPoints', 1, Len(recoveryPoints)) = recoveryPoints
        /\ \A i \in 1..Len(recoveryPoints) :
              storageGet(storage', recoveryPoints[i].stateKey, "undefined")
                  = captured[i] ]_vars

\* C12: whatever happens to the recovery point creation in componentDidCatch,
\* no new error reaches the global handlers, the error the boundary was
\* handed stays its recorded error and the fallback is shown.
C12_FailureNeverEscapes ==
    /\ unhandled = <<>>
    /\ thrown.caught => (boundary.hasError /\ boundary.error = thrown.error)

\* C13: a read of either store raises nothing and returns the caller's
\* default when the stored value is absent, unreadable or not parseable; a
\* write raises nothing and leaves the written value in memory whether or
\* not it could be persisted; and a read after a write in the same process
\* returns the written value.
C13_ReadsFallBackWritesStay ==
    [][ /\ ~lastCall'.raised
        /\ (lastCall'.op = "mount" /\ lastCall'.stored \in {"absent", "garbage", "unreadable"})
              => (lastCall'.returned = lastCall'.default /\ hook'.state = lastCall'.default)
        /\ (lastCall'.op = "construct" /\ lastCall'.stored \in {"absent", "garbage", "unreadable"})
              => mockStore'.store = mockStore'.defaults
        /\ (lastCall'.op = "get" /\ lastCall'.stored = "absent")
              => lastCall'.returned = lastCall'.default
        /\ lastCall'.op = "setState" => hook'.state = lastCall'.value
        /\ lastCall'.op = "set" => mockStore'.store[lastCall'.key] = lastCall'.value
        /\ (lastCall'.op = "read" /\ hookWritten' # undefined)
              => lastCall'.returned = hookWritten'
        /\ (lastCall'.op = "get" /\ mockWritten'[lastCall'.key] # undefined)
              => lastCall'.returned = mockWritten'[lastCall'.key] ]_vars

\* A set() whose persistence failed, then a get() of that key with another
\* default: the written value came back although the item does not hold it.
C13_Witness ==
    /\ lastCall.op = "get"
    /\ mockWritten[lastCall.key] # undefined
    /\ lastCall.returned = mockWritten[lastCall.key]
    /\ lastCall.returned # lastCall.default
    /\ (mockItem.kind # "json" \/ mockItem.value[lastCall.key] # lastCall.returned)

\* The hook mounted over an item that is not JSON and took its initialValue.
C13_ParseWitness ==
    /\ lastCall.op = "mount"
    /\ lastCall.stored = "garbage"
    /\ hook.mounted
    /\ hook.state = lastCall.default

C15_StatusTransitions ==
    [][ \A id \in SessionIds : sessions[id] # noSession =>
          LET before == sessions[id].status
              after == sessions'[id].status
              kind == lastRequest'.kind
          IN  /\ (before = "active" /\ after = "paused") =>
                    /\ kind \in {"tracked", "resume"}
                    /\ lastRequest'.found = id
                    /\ clock - sessions[id].lastActive > 15 * 60 * 1000
                    /\ \/ TrackedRequest(sessions[id].user)
                       \/ \E other \in SessionIds, dbFails \in BOOLEAN :
                             ResumeSession(sessions[id].user, other, dbFails)
              /\ (before = "paused" /\ after = "active") =>
                    /\ kind = "resume"
                    /\ lastRequest'.response = 200
                    /\ ResumeSession(sessions[id].user, id, FALSE)
              /\ (before # "completed" /\ after = "completed") => kind = "complete"
              /\ before = "completed" => after = "completed"
              /\ before = "paused" => after # "completed" \/ kind = "complete"
              /\ kind = "save" => after = before
              /\ kind = "advance" => sessions'[id] = sessions[id]
              /\ (kind = "tracked" /\ before \in {"paused", "completed"}) =>
                    sessions'[id] = sessions[id]
              /\ (kind = "resume" /\ before \in {"paused", "completed"}
                    /\ sessions'[id] # sessions[id]) =>
                    (before = "paused" /\ after = "active"
                        /\ ResumeSession(sessions[id].user, id, FALSE)) ]_vars

\* resume-session found no active session of the caller and answered 200:
\* the session it addressed was paused and is active again.
C15_Witness ==
    /\ lastRequest = [kind |-> "resume", response |-> 200, found |-> 0]
    /\ \E id \in SessionIds :
          sessions[id].status = "active" /\ sessions[id].lastActive = clock

\* C16: an update that sets the status of an active or paused session to
\* completed sets completedAt to the time of the update and durationMinutes
\* to the minutes from the stored startedAt to completedAt, rounded.
C16_CompletionSetsDuration ==
    [][ \A id \in SessionIds, form \in CompletionForms :
          (CompleteSession(id, form) /\ sessions[id].status \in {"active", "paused"}) =>
              /\ sessions'[id].status = "completed"
              /\ sessions'[id].completedAt = clock
              /\ sessions'[id].durationMinutes
                    = (2 * (clock - sessions[id].startedAt) + 60000) \div 120000 ]_vars

\* C17: resume-session and save-state answer 401 to an unauthenticated
\* caller and 403 to a caller who is not the owner of the addressed session
\* (500 when the lookup itself fails), and the session is left as it was.
C17_AuthFailuresLeaveSession ==
    [][ \A id \in SessionIds, dbFails \in BOOLEAN :
          /\ ResumeSession(NoUser, id, dbFails) =>
                (lastRequest'.response = 401 /\ sessions' = sessions)
          /\ \A context \in Contexts :
                SaveState(NoUser, id, context, dbFails) =>
                    (lastRequest'.response = 401 /\ sessions' = sessions)
          /\ \A reqUser \in Users :
                (sessions[id] # noSession /\ sessions[id].user # reqUser) =>
                    /\ ResumeSession(reqUser, id, dbFails) =>
                          /\ lastRequest'.response = IF dbFails THEN 500 ELSE 403
                          /\ sessions'[id] = sessions[id]
                    /\ \A context \in Contexts :
                          SaveState(reqUser, id, context, dbFails) =>
                              /\ lastRequest'.response = IF dbFails THEN 500 ELSE 403
                              /\ sessions'[id] = sessions[id] ]_vars

\* save-state was answered 403 while every session document exists: the
\* caller addressed a session of another user.
C17_Witness ==
    /\ lastRequest.kind = "save"
    /\ lastRequest.response = 403
    /\ \A id \in SessionIds : sessions[id] # noSession /\ sessions[id].context = "null"

\* C18: after resume-session answered the owner with 200, a session that
\* was paused or active is active with lastActive the time of the request,
\* and a completed session is still completed.
C18_ResumeLeavesActiveAndFresh ==
    [][ \A id \in SessionIds, reqUser \in Users :
          (ResumeSession(reqUser, id, FALSE) /\ lastRequest'.response = 200) =>
              IF sessions[id].status \in {"active", "paused"}
              THEN sessions'[id].status = "active" /\ sessions'[id].lastActive = clock
              ELSE sessions'[id].status = "completed" ]_vars

\* C19: a session's context changes only in a save-state request of its
\* owner answered 200; after such a request the context is the submitted
\* one and status, startedAt and completedAt are as before; trackActivity
\* and resume-session leave every context as it was.
C19_ContextChangesOnlyBySaveState ==
    [][ \A id \in SessionIds : sessions[id] # noSession =>
          /\ sessions'[id].context # sessions[id].context =>
                /\ lastRequest'.kind = "save"
                /\ lastRequest'.response = 200
                /\ \E context \in Contexts :
                      SaveState(sessions[id].user, id, context, FALSE)
          /\ \A reqUser \in Users, context \in Contexts :
                (SaveState(reqUser, id, context, FALSE) /\ lastRequest'.response = 200) =>
                    /\ reqUser = sessions[id].user
                    /\ sessions'[id].context = context
                    /\ sessions'[id].status = sessions[id].status
                    /\ sessions'[id].startedAt = sessions[id].startedAt
                    /\ sessions'[id].completedAt = sessions[id].completedAt
          /\ lastRequest'.kind \in {"tracked", "resume", "advance"} =>
                sessions'[id].context = sessions[id].context ]_vars

\* A session whose context had been saved was paused and then resumed, and
\* carries the saved context.
C19_Witness ==
    /\ lastRequest = [kind |-> "resume", response |-> 200, found |-> 0]
    /\ \E id \in SessionIds :
          /\ sessions[id].status = "active"
          /\ sessions[id].lastActive = clock
          /\ sessions[id].context = "ctx-a"

\* C20: when two requests of one user that touch the same session were
\* handled at once and both are answered, that session's record is one that
\* handling the two requests one after the other, in some order, can leave.
C20_RaceEqualsSomeSequentialOrder ==
    (reqs # <<>> /\ \A i \in DOMAIN reqs : reqs[i].pc = "done") =>
        \A id \in SessionIds :
            (/\ reqs[1].found = id
             /\ id = (IF reqs[2].kind = "tracked" THEN reqs[2].found ELSE reqs[2].id)) =>
                \E S \in sequentialOutcomes(base, reqs[1], reqs[2], clock) :
                    sessions[id] = S[id]

\* C21: no user has more than one session with status 'active'.
C21_AtMostOneActiveSession ==
    \A userId \in Users : Cardinality(activeOf(sessions, userId)) <= 1

\* C22: a declared read, update or delete access function grants a document
\* only to an admin or to a caller related to it: the session's user; a
\* member or the owner of the workspace; an assignee of the project or task
\* or a member of its workspace.
C22_AccessOnlyToRelatedCallers ==
    lastAccess.granted =>
        \/ isAdmin(lastAccess.user)
        \/ /\ lastAccess.user # NoUser
           /\ CASE lastAccess.collection = "sessions" ->
                      sessions[lastAccess.id].user = lastAccess.user
                [] lastAccess.collection = "workspaces" ->
                      \/ lastAccess.user \in workspaceDoc.members
                      \/ lastAccess.user = workspaceDoc.owner
                [] lastAccess.collection = "projects" ->
                      \/ lastAccess.user \in projectDoc.assignees
                      \/ lastAccess.user \in workspaceDoc.members
                [] OTHER ->
                      \/ lastAccess.user = taskDoc.assignee
                      \/ lastAccess.user \in workspaceDoc.members

\* C23: the session record in the body of a resume-session response with
\* status 200 is the session as stored when the handler has finished.
C23_ResumeReturnsStoredSession ==
    [][ \A id \in SessionIds, reqUser \in Users :
          (ResumeSession(reqUser, id, FALSE) /\ lastRequest'.response = 200) =>
              replied' = sessions'[id] ]_vars

\* C24: while the operation of a saveWorkspace is still in the queue, the
\* Local Store's copy of that workspace is the one saved by the latest such
\* operation, and a getWorkspace that returns meanwhile returns it.
C24_QueuedSaveKeepsLocalCopy ==
    \A i \in 1..Len(queue) :
        (/\ queue[i].type = "saveWorkspace"
         /\ \A j \in (i + 1)..Len(queue) : queue[j].data.id # queue[i].data.id) =>
            localStore[queue[i].data.id] = queue[i].data

\* C25: an update of a workspace by one of its members, with data that
\* carries no owner, leaves the owner as it was, so a member who is not the
\* owner does not get the right to delete the workspace by updating it.
C25_OwnerChangesOnlyWhenSupplied ==
    [][ \A reqUser \in Users, data \in workspaceUpdates(workspaceDoc) :
          (/\ UpdateWorkspace(reqUser, data)
           /\ reqUser \in workspaceDoc.members
           /\ data.owner = "absent") =>
              /\ workspaceDoc'.owner = workspaceDoc.owner
              /\ workspacesDelete(reqUser, workspaceDoc') =>
                    workspacesDelete(reqUser, workspaceDoc) ]_vars

\* C26: a task's completedDate is set exactly when its stored status is
\* 'completed', and stays as it is while the task stays completed.
C26_CompletedDateIffCompleted ==
    [][ /\ taskDoc' # noTask =>
              (isSet(taskDoc'.completedDate) <=> taskDoc'.status = "completed")
        /\ (taskDoc.status = "completed" /\ taskDoc'.status = "completed") =>
              taskDoc'.completedDate = taskDoc.completedDate ]_vars

\* C27: once a session is completed, no later request changes its
\* completedAt or its durationMinutes.
C27_CompletionFieldsFrozen ==
    [][ \A id \in SessionIds :
          sessions[id].status = "completed" =>
              /\ sessions'[id].completedAt = sessions[id].completedAt
              /\ sessions'[id].durationMinutes = sessions[id].durationMinutes ]_vars

\* C28: an update of a workspace leaves its createdAt as it was, and an
\* update of a project leaves its createdAt and createdBy as they were.
C28_CreationFieldsFrozen ==
    [][ /\ (workspaceDoc # noWorkspace /\ workspaceDoc' # noWorkspace) =>
              workspaceDoc'.createdAt = workspaceDoc.createdAt
        /\ (projectDoc # noProject /\ projectDoc' # noProject) =>
              /\ projectDoc'.createdAt = projectDoc.createdAt
              /\ projectDoc'.createdBy = projectDoc.createdBy ]_vars

\* C29: every run of trackActivity calls next() exactly once and raises
\* nothing; with no req.user it makes no call; when a call fails the writes
\* made before it stay and the later ones are not made.
C29_NextCalledOnceWritesKept ==
    [][ \A reqUser \in Users \cup {NoUser}, failure \in Failures :
          TrackActivity(reqUser, failure) =>
              LET made == Range(lastTrack'.made)
                  session == lastTrack'.found
              IN  /\ lastTrack'.nextCalls = 1
                  /\ ~lastTrack'.raised
                  /\ reqUser = NoUser =>
                        made = {} /\ sessions' = sessions
                                  /\ userLastActive' = userLastActive
                  /\ failure \in made => ~lastTrack'.caught
                  /\ lastTrack'.caught =>
                        /\ lastTrack'.made = SubSeq(TrackCalls, 1, Len(lastTrack'.made))
                        /\ failure = TrackCalls[Len(lastTrack'.made) + 1]
                  /\ reqUser # NoUser =>
                        userLastActive' =
                            IF "updateUser" \in made
                            THEN [userLastActive EXCEPT ![reqUser] = clock]
                            ELSE userLastActive
                  /\ \A id \in SessionIds :
                        /\ sessions'[id].lastActive =
                              IF id = session /\ "updateLastActive" \in made
                              THEN clock ELSE sessions[id].lastActive
                        /\ sessions'[id].status =
                              IF id = session /\ "updatePaused" \in made
                              THEN "paused" ELSE sessions[id].status ]_vars

\* The update to 'paused' failed: trackActivity went on to next() with the
\* user's and the session's lastActive written and the session still active.
C29_Witness ==
    /\ lastTrack.caught
    /\ lastTrack.made = <<"updateUser", "find", "updateLastActive">>
    /\ lastTrack.nextCalls = 1
    /\ lastTrack.found # 0
    /\ sessions[lastTrack.found].status = "active"
    /\ sessions[lastTrack.found].lastActive = clock
    /\ sessions[lastTrack.found].startedAt < clock
    /\ userLastActive[lastTrack.user] = clock

====
